---- MODULE Spec2Model ----
(***************************************************************************)
(* The action orchestrator of mergify-engine                               *)
(* (mergify_engine/tasks/engine/actions_runner.py) as a state machine.     *)
(*                                                                         *)
(* A pass is one call of handle(): it reads the rule match, the posted     *)
(* checks and the previous conclusions (Load), runs the body of the loop   *)
(* of run_actions once per (rule, action) pair (RunAction) and publishes   *)
(* the Summary (PostSummary).  Tasks for the same pull request are         *)
(* independent workers that share only the external objects: the posted   *)
(* checks, the Summary and the comments of the pull request.               *)
(***************************************************************************)
EXTENDS Integers, Sequences, FiniteSets, TLC

\* ------------------------------------------------------------------ bounds
\* The actions a configuration declares, over all its rules.
MaxActions == 2
\* The events handled in a behaviour (one pass each, two when delivered twice).
MaxPasses == 2
\* The events that trigger one pass.
MaxSources == 1
\* Rules in a configuration file.
MaxRules == 3

\* --------------------------------------------------------------- constants
Tasks == {"t1", "t2"}

\* Python's None as a conclusion (a pending action).
None == "None"
\* A name that is in no dict.
NoCheck == "NoCheck"

\* The action classes of the registry.
ActionNames == {"merge", "comment", "always_action"}

\* The actions a rule may declare, in declaration order (rule["actions"]).
ActionLists == {<<"merge">>, <<"comment">>, <<"always_action">>, <<"comment", "merge">>}

\* Class attributes of the actions.
only_once(action) == action = "merge"

silent_report(action) == action = "comment"

always_run(action) == action = "always_action"

\* The triggering event records the orchestrator tells apart.
Events ==
  { [event_type |-> "pull_request", action |-> "synchronize"],
    [event_type |-> "refresh", action |-> "user"],
    [event_type |-> "refresh", action |-> "forced"] }

\* handle()'s sources: the events that triggered the pass, at least one.
SourceLists == UNION { [1..n -> Events] : n \in 1..MaxSources }

\* A rule that get_pull_request_rule puts in ignored_rules.
Ignored == <<"ignored">>

\* What a snapshot makes of a rule: the missing_conditions of a matching rule, or
\* a rule ignored.
RuleStates == { <<>>, <<"status-success=ci">> } \cup {Ignored}

VARIABLES
  rules,                 \* the loaded pull_request_rules: rule i declares rules[i]
  checks,                \* the check runs posted on the pull request, by check name
  summary,               \* the Summary check run
  comments,              \* per rule, the bot comments posted with the rule's message
  passes,                \* passes started
  pc,                    \* per task: "idle", "run" (in run_actions), "post" (run_actions returned),
                         \* "crashed" (handle() left by an exception)
  sources,               \* per task: handle()'s sources
  match,                 \* per task: match.matching_rules
  seen,                  \* per task: the checks dict read by handle(), SUMMARY_NAME included
  previous_conclusions,  \* per task: load_conclusions()'s result
  idx,                   \* per task: the position of run_actions' loop
  actions_ran,           \* per task: run_actions' actions_ran
  conclusions,           \* per task: run_actions' conclusions
  log,                   \* per task: one record per loop iteration (the "action evaluation" log line)
  summary_posted,        \* per task: what post_summary did last, "posted" (set_check_run
                         \* called for SUMMARY_NAME) or "unchanged"; "none" before it ran
  merge_config,          \* the config of the merge action
  queue,                 \* whether the pull request is in the merge-train queue
  merge_log,             \* what the calls of the merge action did in the current pass
  rule_file,             \* the pull_request_rules of the configuration file, as written
  pull_request_rules,    \* the rules as loaded, <<>> before they are
  matched                \* the last result of get_pull_request_rule, with its pull request

vars == <<rules, checks, summary, comments, passes, pc, sources, match, seen,
          previous_conclusions, idx, actions_ran, conclusions, log,
          summary_posted, merge_config, queue, merge_log,
          rule_file, pull_request_rules, matched>>

\* The rules and their match, from the file to get_pull_request_rule.
rules_vars == <<rule_file, pull_request_rules, matched>>

\* No result of get_pull_request_rule yet.
NoMatch == [done |-> FALSE]

\* No configuration file is looked at.
NoRuleFile ==
  /\ rule_file = <<>>
  /\ pull_request_rules = <<>>
  /\ matched = NoMatch

\* The state of the merge action and of the merge-train queue.
merge_vars == <<merge_config, queue, merge_log>>

\* ------------------------------------------------------------------ helpers
\* The defaults of MergeAction.validator.
DefaultConfig ==
  [method |-> "merge", rebase_fallback |-> "merge", strict |-> "False", strict_method |-> "merge"]

EmptyDict == [x \in {} |-> None]

Put(d, k, v) == [x \in (DOMAIN d) \cup {k} |-> IF x = k THEN v ELSE d[x]]

\* "Rule: %s (%s)" % (rule["name"], action); rule i is named i.
\* Mutant: the check is named after the rule alone.
check_name_of_rule(rule, action) == <<rule, "merge">>

check_name(rule, action) == <<rule, action>>

RECURSIVE Flatten(_)
Flatten(ss) == IF ss = <<>> THEN <<>> ELSE Head(ss) \o Flatten(Tail(ss))

\* The loop of run_actions: the rules of matching_rules in order, then each rule's
\* actions in order.
PairsOf(cfg, m) ==
  Flatten([k \in 1..Len(m) |->
            [j \in 1..Len(cfg[m[k].rule]) |->
               [rule |-> m[k].rule, missing_conditions |-> m[k].missing_conditions,
                action |-> cfg[m[k].rule][j]]]])

RECURSIVE SelectRules(_, _)
SelectRules(p, i) ==
  IF i > Len(p) THEN <<>>
  ELSE (IF p[i] = Ignored THEN <<>>
        ELSE << [rule |-> i, missing_conditions |-> p[i]] >>) \o SelectRules(p, i + 1)

\* match.matching_rules of get_pull_request_rule(pull): the rules that are not
\* ignored, in configuration order, each with its missing conditions.
matching_rules(p) == SelectRules(p, 1)

\* The check names the configuration can produce.
AllCheckNames(cfg) ==
  UNION { { check_name(i, cfg[i][j]) : j \in 1..Len(cfg[i]) } : i \in 1..Len(cfg) }

Range(s) == { s[k] : k \in DOMAIN s }

\* ------------------------------------------------------- conclusion codec
\* The Summary check run: absent, or its output (title, the text of the rules, last line).
NoSummary == [present |-> FALSE]

\* Where a check name sorts among the keys of the dumped mapping.
KeyRank(name) ==
  name[1] * 4 + (CASE name[2] = "always_action" -> 1 [] name[2] = "comment" -> 2 [] OTHER -> 3)

RECURSIVE SortedKeys(_)
SortedKeys(S) ==
  IF S = {} THEN <<>>
  ELSE LET k == CHOOSE x \in S : \A y \in S : KeyRank(x) <= KeyRank(y)
       IN <<k>> \o SortedKeys(S \ {k})

\* Mutant: the scalar null is loaded as the string it is written as.
YamlValue_keeps_null(s) == s

YamlValue(s) == IF s = "null" THEN None ELSE s

\* "<!-- %s -->" % base64(yaml.safe_dump(conclusions)): the line's delimiters and,
\* between them, the mapping as its key: value lines in key order (yaml.safe_dump
\* writes the conclusion None as null).
serialize_conclusions(c) ==
  [prefix |-> "<!-- ",
   payload |-> [k \in 1..Cardinality(DOMAIN c) |->
                  <<SortedKeys(DOMAIN c)[k],
                    IF c[SortedKeys(DOMAIN c)[k]] = None
                      THEN "null" ELSE c[SortedKeys(DOMAIN c)[k]]>>],
   suffix |-> " -->"]

\* A Summary whose last line is no marker (a Summary of an engine that wrote none).
LegacySummary ==
  [present |-> TRUE, title |-> <<0, 0>>, text |-> <<>>,
   last |-> [prefix |-> "", payload |-> <<>>, suffix |-> ""]]

\* A payload between the delimiters that base64.b64decode or yaml.safe_load refuses.
Undecodable == << << <<0, "?">>, "?" >> >>

CorruptSummary ==
  [present |-> TRUE, title |-> <<0, 0>>, text |-> <<>>,
   last |-> [prefix |-> "<!-- ", payload |-> Undecodable, suffix |-> " -->"]]

\* Mutant: a Summary without marker is read like no Summary.
load_conclusions_no_flag(summary_check) ==
  IF ~summary_check.present
    THEN [deprecated_summary |-> FALSE, map |-> EmptyDict, raised |-> FALSE]
  ELSE IF summary_check.last.prefix = "<!-- " /\ summary_check.last.suffix = " -->"
    THEN IF summary_check.last.payload = Undecodable
           THEN [deprecated_summary |-> FALSE, map |-> EmptyDict, raised |-> TRUE]
           ELSE [deprecated_summary |-> FALSE,
                 map |-> [n \in { e[1] : e \in Range(summary_check.last.payload) } |->
                            YamlValue((CHOOSE e \in Range(summary_check.last.payload) : e[1] = n)[2])],
                 raised |-> FALSE]
  ELSE [deprecated_summary |-> FALSE, map |-> EmptyDict, raised |-> FALSE]

\* load_conclusions: previous_conclusions as its "deprecated_summary" entry and
\* its check-name entries; raised when the decoding of the payload raises, which
\* load_conclusions does not catch.
load_conclusions(summary_check) ==
  IF ~summary_check.present
    THEN [deprecated_summary |-> FALSE, map |-> EmptyDict, raised |-> FALSE]
  ELSE IF summary_check.last.prefix = "<!-- " /\ summary_check.last.suffix = " -->"
    THEN IF summary_check.last.payload = Undecodable
           THEN [deprecated_summary |-> FALSE, map |-> EmptyDict, raised |-> TRUE]
           ELSE [deprecated_summary |-> FALSE,
                 map |-> [n \in { e[1] : e \in Range(summary_check.last.payload) } |->
                            YamlValue((CHOOSE e \in Range(summary_check.last.payload) : e[1] = n)[2])],
                 raised |-> FALSE]
  ELSE [deprecated_summary |-> TRUE, map |-> EmptyDict, raised |-> FALSE]

\* gen_summary: the title counts the completed and the potential rules, the text
\* lists each matching rule with its missing conditions.
gen_summary(m) ==
  [title |-> << Cardinality({k \in 1..Len(m) : m[k].missing_conditions = <<>>}),
                Cardinality({k \in 1..Len(m) : m[k].missing_conditions # <<>>}) >>,
   text |-> m]

\* The Summary post_summary builds.
new_summary(m, c) ==
  [present |-> TRUE, title |-> gen_summary(m).title, text |-> gen_summary(m).text,
   last |-> serialize_conclusions(c)]

\* Mutant: only the title is compared.
summary_changed_title_only(summary_check, m, c) ==
  \/ ~summary_check.present
  \/ summary_check.title # new_summary(m, c).title

summary_changed(summary_check, m, c) ==
  \/ ~summary_check.present
  \/ summary_check.title # new_summary(m, c).title
  \/ <<summary_check.text, summary_check.last>> # <<new_summary(m, c).text, new_summary(m, c).last>>

\* ------------------------------------------------------------ run_actions
\* Mutant: the refresh events are looked for under another event type.
user_refresh_never(src) == \E k \in DOMAIN src : src[k].event_type = "refreshed"

user_refresh_requested(src) == \E k \in DOMAIN src : src[k].event_type = "refresh"

\* Mutant: the forced refresh is looked for under another action name.
forced_refresh_never(src) ==
  \E k \in DOMAIN src : src[k].event_type = "refresh" /\ src[k].action = "force"

forced_refresh_requested(src) ==
  \E k \in DOMAIN src : src[k].event_type = "refresh" /\ src[k].action = "forced"

\* Mutant: run is selected whatever is missing.
method_name_always_run(missing_conditions) == "run"

method_name(missing_conditions) == IF missing_conditions # <<>> THEN "cancel" ELSE "run"

\* Mutant: a pending conclusion is among the expected ones.
expected_conclusions_with_pending(missing_conditions) ==
  IF missing_conditions # <<>> THEN <<"neutral", "cancelled", None>>
  ELSE <<"success", "failure", None>>

expected_conclusions(missing_conditions) ==
  IF missing_conditions # <<>> THEN <<"neutral", "cancelled">> ELSE <<"success", "failure">>

\* Mutant: the only_once flag is not consulted with the actions already run.
done_by_another_never(action, ran) == only_once(action) /\ action \in {}

done_by_another_action(action, ran) == only_once(action) /\ action \in ran

\* Mutant: run does not record the action in actions_ran.
ran_after_forgets(action, missing_conditions, ran) == ran

\* actions_ran after the method is chosen: run adds the action, cancel does not.
ran_after(action, missing_conditions, ran) ==
  IF missing_conditions # <<>> THEN ran ELSE ran \cup {action}

\* Mutant: the posted checks are read again instead of the dict handle() passed.
get_previous_conclusion_live(prev, name, chk) ==
  IF name \in DOMAIN prev THEN prev[name]
  ELSE IF checks[name] # NoCheck THEN checks[name]
  ELSE "neutral"

get_previous_conclusion(prev, name, chk) ==
  IF name \in DOMAIN prev THEN prev[name]
  ELSE IF chk[name] # NoCheck THEN chk[name]
  ELSE "neutral"

\* CommentAction.deprecated_double_comment_protection: a bot comment with the
\* rule's message is on the pull request.
deprecated_double_comment_protection(rule, cmts) == cmts[rule] > 0

\* Mutant: the posted comments are not looked at.
previous_conclusion_no_protection(prev, rule, action, cmts, chk) ==
  get_previous_conclusion(prev.map, check_name(rule, action), chk)

previous_conclusion(prev, rule, action, cmts, chk) ==
  IF prev.deprecated_summary /\ action = "comment"
       /\ deprecated_double_comment_protection(rule, cmts)
    THEN "success"
    ELSE get_previous_conclusion(prev.map, check_name(rule, action), chk)

\* Mutant: a user refresh does not retry a failed action.
need_to_be_run_no_retry(action, src, prev_conclusion, expected) ==
  \/ always_run(action)
  \/ forced_refresh_requested(src)
  \/ prev_conclusion \notin Range(expected)

\* Mutant: only an action that always runs, or a refresh, makes the method run.
need_to_be_run_only_flag(action, src, prev_conclusion, expected) ==
  \/ always_run(action)
  \/ forced_refresh_requested(src)
  \/ (user_refresh_requested(src) /\ prev_conclusion = "failure")

need_to_be_run(action, src, prev_conclusion, expected) ==
  \/ always_run(action)
  \/ forced_refresh_requested(src)
  \/ (user_refresh_requested(src) /\ prev_conclusion = "failure")
  \/ prev_conclusion \notin Range(expected)

\* ------------------------------------------------------------- the actions
\* What a method call produces: a report <<conclusion, title, summary>>, <<>> for a
\* method that returns None, or an exception.
Raise == <<"raise">>

NoReport == <<>>

cancelled_check_report == <<"cancelled", "The rule doesn't match anymore", "">>

\* MergeAction.run: the merge report, the reports of _sync_with_base_branch, _merge
\* and _handle_merge_error, or an exception of a call it makes.
MergeRunReturns ==
  { <<"success", "The pull request has been merged automatically", "">>,
    <<"failure", "Mergify failed to merge the pull request", "">>,
    <<"cancelled", "Head branch was modified in the meantime", "">>,
    <<"action_required", "Automatic rebasing is not possible, manual intervention required", "">>,
    <<None, "Waiting for the Branch Protection to be validated", "">>,
    Raise }

\* MergeAction.cancel: the waiting-for-CI report or the cancelled report.
MergeCancelReturns ==
  { <<None, "Waiting for status checks", "">>, cancelled_check_report, Raise }

\* CommentAction.run: the comment is posted, or the API refuses it, or another
\* exception leaves the method.
CommentPosted == <<"success", "Comment posted", "">>

CommentRunReturns ==
  { CommentPosted, <<None, "Unable to post comment", "">>, Raise }

\* An action that keeps the base class's cancel.
BaseCancelReturns == { cancelled_check_report, NoReport }

\* An action whose run reports what it did, or returns nothing.
OtherRunReturns ==
  { <<"success", "done", "">>, <<"failure", "failed", "">>, NoReport, Raise }

ActionReturns(action, method) ==
  CASE action = "merge" /\ method = "run" -> MergeRunReturns
    [] action = "merge" /\ method = "cancel" -> MergeCancelReturns
    [] action = "comment" /\ method = "run" -> CommentRunReturns
    [] method = "cancel" -> BaseCancelReturns
    [] OTHER -> OtherRunReturns

\* Mutant: run() is called whatever the method name.
exec_action_always_run(method, action, missing_conditions, outcome) ==
  [call |-> [method |-> "run", action |-> action, missing_conditions |-> missing_conditions],
   report |-> IF outcome = Raise
                THEN <<"failure", "action failed", " ">>
                ELSE outcome]

\* Mutant: an exception is logged and no report is returned.
exec_action_swallows(method, action, missing_conditions, outcome) ==
  [call |-> [method |-> method, action |-> action, missing_conditions |-> missing_conditions],
   report |-> IF outcome = Raise THEN NoReport ELSE outcome]

\* exec_action: the call it makes (the method, with the rule's missing conditions)
\* and the report it returns, an exception turned into a failure report.
exec_action(method, action, missing_conditions, outcome) ==
  [call |-> [method |-> method, action |-> action, missing_conditions |-> missing_conditions],
   report |-> IF outcome = Raise
                THEN <<"failure", "action failed", " ">>
                ELSE outcome]

\* Mutant: the only_once test comes before the need_to_be_run test.
evaluate_once_first(method, action, missing_conditions, need, done, prev_conclusion, outcome) ==
  IF done
    THEN [calls |-> <<>>, message |-> "ignored, another action has already been run",
          report |-> <<"success", "Another action already ran", "">>]
  ELSE IF ~need
    THEN [calls |-> <<>>, message |-> "ignored, already in expected state",
          report |-> <<prev_conclusion, "Already in expected state", "">>]
  ELSE [calls |-> << [method |-> method, action |-> action,
                      missing_conditions |-> missing_conditions] >>,
        message |-> "executed",
        report |-> IF outcome = Raise THEN <<"failure", "action failed", " ">> ELSE outcome]

\* The report of one iteration, and the call made for it (none: <<>>).
evaluate(method, action, missing_conditions, need, done, prev_conclusion, outcome) ==
  IF ~need
    THEN [calls |-> <<>>, message |-> "ignored, already in expected state",
          report |-> <<prev_conclusion, "Already in expected state", "">>]
  ELSE IF done
    THEN [calls |-> <<>>, message |-> "ignored, another action has already been run",
          report |-> <<"success", "Another action already ran", "">>]
  ELSE [calls |-> << exec_action(method, action, missing_conditions, outcome).call >>,
        message |-> "executed",
        report |-> exec_action(method, action, missing_conditions, outcome).report]

\* Mutant: a pair that is not run keeps the action's own silent_report flag.
silent_flag_only(action, need) == silent_report(action)

\* Whether the iteration hides its report: the action's flag, or nothing to run.
silent(action, need) == IF ~need THEN TRUE ELSE silent_report(action)

\* The set_check_run calls of one iteration; status is "completed" if conclusion
\* else "in_progress".
set_check_calls(name, report, is_silent) ==
  IF report # NoReport /\ ~is_silent
    THEN << [name |-> name, status |-> IF report[1] # None THEN "completed" ELSE "in_progress",
             conclusion |-> report[1], title |-> report[2]] >>
    ELSE <<>>

\* Mutant: an action without report is recorded as success.
new_conclusion_success(report, expected) ==
  IF report # NoReport THEN report[1] ELSE "success"

\* conclusions[check_name] of one iteration.
new_conclusion(report, expected) ==
  IF report # NoReport THEN report[1] ELSE expected[1]

\* One iteration of the loop of run_actions, for the pair p.
iteration(p, src, prev, chk, cmts, ran, outcome) ==
  LET name == check_name(p.rule, p.action)
      method == method_name(p.missing_conditions)
      expected == expected_conclusions(p.missing_conditions)
      done == done_by_another_action(p.action, ran)
      prevc == previous_conclusion(prev, p.rule, p.action, cmts, chk)
      need == need_to_be_run(p.action, src, prevc, expected)
      ev == evaluate(method, p.action, p.missing_conditions, need, done, prevc, outcome)
  IN [check_name |-> name,
      rule |-> p.rule,
      action |-> p.action,
      missing_conditions |-> p.missing_conditions,
      method_name |-> method,
      expected_conclusions |-> expected,
      done_by_another_action |-> done,
      previous_conclusion |-> prevc,
      need_to_be_run |-> need,
      message |-> ev.message,
      calls |-> ev.calls,
      outcomes |-> IF ev.calls = <<>> THEN <<>> ELSE <<outcome>>,
      report |-> ev.report,
      published |-> set_check_calls(name, ev.report, silent(p.action, need)),
      conclusion |-> new_conclusion(ev.report, expected),
      actions_ran |-> ran_after(p.action, p.missing_conditions, ran)]

\* --------------------------------------------------------- the merge action
\* The values MergeAction.validator accepts ("False"/"True" for the booleans of strict).
MergeConfigs ==
  [method : {"merge", "rebase", "squash"},
   rebase_fallback : {"merge", "squash", None},
   strict : {"False", "True", "smart"},
   strict_method : {"merge", "rebase"}]

\* self.config["strict"] as a condition.
truthy(strict) == strict # "False"

\* What ctxt.client.put answers: the merge is done, an HTTPClientSideError with the
\* texts its message contains and its status code, or another exception.
NoPut == [kind |-> "none", message |-> {}, status_code |-> 0]

\* What helpers.update_pull_base_branch returns.
UpdateReturns ==
  { <<None, "Base branch updates done", "">>,
    <<"failure", "Base branch update has failed", "">>,
    Raise }

\* What the pull request and the services answer during one call of run().
RunEnvs ==
  [state : {"open", "merged", "closed"},
   is_behind : BOOLEAN,
   pull_base_is_modifiable : BOOLEAN,
   rebaseable : BOOLEAN,
   put : { [kind |-> "ok", message |-> {}, status_code |-> 200],
           [kind |-> "raise", message |-> {}, status_code |-> 0] }
         \cup [kind : {"client_error"},
               message : SUBSET {"Head branch was modified", "Base branch was modified"},
               status_code : {405, 422}],
   merged_in_the_meantime : BOOLEAN,
   update : UpdateReturns]

\* helpers.merge_report: the report of a pull request that is merged or closed,
\* nothing for one that is open.
merge_report(state) ==
  CASE state = "merged" -> <<"success", "The pull request has been merged automatically", "">>
    [] state = "closed" -> <<"cancelled", "The pull request has been closed manually", "">>
    [] OTHER -> NoReport

\* One step of a call: the helper or service called and with what, or the
\* attribute of the pull request read and its value.
Step(op, arg) == [op |-> op, arg |-> arg]

\* A boolean as the step that reads it shows it.
PyBool(b) == IF b THEN "True" ELSE "False"

\* The result of a part of run() or cancel(): its report (or Raise), the queue
\* after it, the calls it made and the answer of the merge request it consumed.
Result(report, q, steps, put, merged) ==
  [report |-> report, queue |-> q, steps |-> steps, put |-> put, merged |-> merged]

_sync_with_base_branch(config, env, q, steps, put) ==
  LET read == Append(steps, Step("ctxt.pull_base_is_modifiable", PyBool(env.pull_base_is_modifiable)))
  IN IF ~env.pull_base_is_modifiable
       THEN Result(<<"failure", "Pull request can't be updated with latest base branch changes, owner doesn't allow modification", "">>,
                   q, read, put, FALSE)
     ELSE IF config.strict = "smart"
       THEN Result(<<None, "Base branch will be updated soon", "">>,
                   TRUE, Append(read, Step("queue.add_pull", config.strict_method)), put, FALSE)
     ELSE Result(env.update, q,
                 Append(read, Step("update_pull_base_branch", config.strict_method)), put, FALSE)

\* Mutant: the status code is tested before the message.
_handle_merge_error_status_first(config, env, q, steps) ==
  IF env.put.status_code = 405
    THEN Result(<<None, "Waiting for the Branch Protection to be validated", "">>,
                q, steps, env.put, FALSE)
  ELSE IF "Head branch was modified" \in env.put.message
    THEN Result(<<"cancelled", "Head branch was modified in the meantime", "">>,
                q, steps, env.put, FALSE)
  ELSE IF "Base branch was modified" \in env.put.message
    THEN _sync_with_base_branch(config, env, q, steps, env.put)
  ELSE Result(<<"failure", "Mergify failed to merge the pull request", "">>,
              q, steps, env.put, FALSE)

\* Mutant: a modified base branch is a failure like any other.
_handle_merge_error_no_resync(config, env, q, steps) ==
  IF "Head branch was modified" \in env.put.message
    THEN Result(<<"cancelled", "Head branch was modified in the meantime", "">>,
                q, steps, env.put, FALSE)
  ELSE IF env.put.status_code = 405
    THEN Result(<<None, "Waiting for the Branch Protection to be validated", "">>,
                q, steps, env.put, FALSE)
  ELSE Result(<<"failure", "Mergify failed to merge the pull request", "">>,
              q, steps, env.put, FALSE)

_handle_merge_error(config, env, q, steps) ==
  IF "Head branch was modified" \in env.put.message
    THEN Result(<<"cancelled", "Head branch was modified in the meantime", "">>,
                q, steps, env.put, FALSE)
  ELSE IF "Base branch was modified" \in env.put.message
    THEN _sync_with_base_branch(config, env, q, steps, env.put)
  ELSE IF env.put.status_code = 405
    THEN Result(<<None, "Waiting for the Branch Protection to be validated", "">>,
                q, steps, env.put, FALSE)
  ELSE Result(<<"failure", "Mergify failed to merge the pull request", "">>,
              q, steps, env.put, FALSE)

\* Mutant: the configured method is sent whatever the pull request allows.
merge_method_no_fallback(config, rebaseable) == config.method

\* The merge_method _merge sends, None when there is none to send.
merge_method(config, rebaseable) ==
  IF config.method # "rebase" \/ rebaseable THEN config.method
  ELSE config.rebase_fallback

_merge(config, env, q, steps) ==
  LET read == IF config.method = "rebase"
                THEN Append(steps, Step("ctxt.pull.rebaseable", PyBool(env.rebaseable)))
                ELSE steps
  IN IF merge_method(config, env.rebaseable) = None
    THEN Result(<<"action_required", "Automatic rebasing is not possible, manual intervention required", "">>,
                q, read, NoPut, FALSE)
  ELSE LET sent == Append(read, Step("client.put", merge_method(config, env.rebaseable)))
       IN CASE env.put.kind = "ok" -> Result(merge_report("merged"), q, sent, env.put, TRUE)
            [] env.put.kind = "raise" -> Result(Raise, q, sent, env.put, FALSE)
            [] OTHER ->
                 IF env.merged_in_the_meantime
                   THEN Result(merge_report("merged"), q, sent, env.put, TRUE)
                   ELSE _handle_merge_error(config, env, q, sent)

\* Mutant: the pull request stays in the queue when the merge attempt raised.
finally_remove_pull_unless_raised(config, res) ==
  IF config.strict = "smart" /\ res.report # Raise
    THEN [res EXCEPT !.queue = FALSE, !.steps = Append(res.steps, Step("queue.remove_pull", ""))]
    ELSE res

\* The finally clause of run(), and the same two lines on its first return.
finally_remove_pull(config, res) ==
  IF config.strict = "smart"
    THEN [res EXCEPT !.queue = FALSE, !.steps = Append(res.steps, Step("queue.remove_pull", ""))]
    ELSE res

\* Mutant: the merge is attempted although the pull request is behind its base.
MergeAction_run_merges_behind(config, env, q) ==
  LET steps == << Step("merge_report", "") >>
      read == IF truthy(config.strict)
                THEN Append(steps, Step("ctxt.is_behind", PyBool(env.is_behind)))
                ELSE steps
  IN IF merge_report(env.state) # NoReport
       THEN finally_remove_pull(config, Result(merge_report(env.state), q, steps, NoPut, FALSE))
     ELSE finally_remove_pull(config, _merge(config, env, q, read))

\* MergeAction.run.
MergeAction_run(config, env, q) ==
  LET steps == << Step("merge_report", "") >>
      read == IF truthy(config.strict)
                THEN Append(steps, Step("ctxt.is_behind", PyBool(env.is_behind)))
                ELSE steps
  IN IF merge_report(env.state) # NoReport
       THEN finally_remove_pull(config, Result(merge_report(env.state), q, steps, NoPut, FALSE))
     ELSE IF truthy(config.strict) /\ env.is_behind
       THEN _sync_with_base_branch(config, env, q, read, NoPut)
     ELSE finally_remove_pull(config, _merge(config, env, q, read))

\* The conditions on a status, by their attribute name, and the status each names.
StatusConditions == {"status-success=ci", "status-success=lint"}

CheckOf(condition) == IF condition = "status-success=ci" THEN "ci" ELSE "lint"

\* What the pull request answers during one call of cancel(): whether it is
\* closed, and the state of the two statuses in ctxt.checks ("absent": ctxt.checks
\* does not hold it; ci = "raise": reading ctxt.checks raises).
CancelEnvs ==
  [closed : BOOLEAN,
   ci : {"absent", "pending", "failure", "raise"},
   lint : {"absent", "pending", "failure"}]

\* _required_statuses_in_progress gets as far as reading ctxt.checks.
checks_consulted(env, missing_conditions) ==
  /\ ~env.closed
  /\ \A c \in Range(missing_conditions) : c \in StatusConditions
  /\ missing_conditions # <<>>

\* The states of the statuses of ctxt.checks that the conditions name.
states(env, missing_conditions) ==
  { env[CheckOf(c)] : c \in Range(missing_conditions) } \ {"absent"}

\* Mutant: the state of the pull request is not looked at.
_required_statuses_ignores_closed(env, missing_conditions) ==
  IF \E c \in Range(missing_conditions) : c \notin StatusConditions THEN FALSE
  ELSE IF missing_conditions = <<>> THEN FALSE
  ELSE IF env.ci = "absent" /\ env.lint = "absent" THEN TRUE
  ELSE IF states(env, missing_conditions) = {} THEN TRUE
  ELSE "pending" \in states(env, missing_conditions)

\* Mutant: the action waits only if none of the statuses named has concluded.
_required_statuses_all_in_progress(env, missing_conditions) ==
  IF env.closed THEN FALSE
  ELSE IF \E c \in Range(missing_conditions) : c \notin StatusConditions THEN FALSE
  ELSE IF missing_conditions = <<>> THEN FALSE
  ELSE states(env, missing_conditions) \subseteq {"pending"}

_required_statuses_in_progress(env, missing_conditions) ==
  IF env.closed THEN FALSE
  ELSE IF \E c \in Range(missing_conditions) : c \notin StatusConditions THEN FALSE
  ELSE IF missing_conditions = <<>> THEN FALSE
  ELSE IF env.ci = "absent" /\ env.lint = "absent" THEN TRUE
  ELSE IF states(env, missing_conditions) = {} THEN TRUE
  ELSE "pending" \in states(env, missing_conditions)

\* helpers.get_wait_for_ci_report.
get_wait_for_ci_report == <<None, "Waiting for status checks", "">>

\* What cancel() reads of the pull request: its state when strict is set, and
\* ctxt.checks when _required_statuses_in_progress gets that far.
cancel_reads(config, env, missing_conditions) ==
  IF ~truthy(config.strict) THEN <<>>
  ELSE << Step("ctxt.pull.state", IF env.closed THEN "closed" ELSE "open") >>
       \o (IF ~checks_consulted(env, missing_conditions) THEN <<>>
           ELSE IF env.ci = "raise" THEN << Step("ctxt.checks", "raise") >>
           ELSE << Step("ctxt.checks.ci", env.ci), Step("ctxt.checks.lint", env.lint) >>)

\* MergeAction.cancel.
MergeAction_cancel(config, env, missing_conditions, q) ==
  LET read == cancel_reads(config, env, missing_conditions)
  IN IF truthy(config.strict) /\ checks_consulted(env, missing_conditions) /\ env.ci = "raise"
       THEN Result(Raise, q, read, NoPut, FALSE)
     ELSE IF truthy(config.strict) /\ _required_statuses_in_progress(env, missing_conditions)
       THEN Result(get_wait_for_ci_report, q, Append(read, Step("get_wait_for_ci_report", "")), NoPut, FALSE)
     ELSE IF config.strict = "smart"
       THEN Result(cancelled_check_report, FALSE, Append(read, Step("queue.remove_pull", "")), NoPut, FALSE)
     ELSE Result(cancelled_check_report, q, read, NoPut, FALSE)

\* ----------------------------------------------------------- state machine
RECURSIVE NbActions(_)
NbActions(cfg) == IF cfg = <<>> THEN 0 ELSE Len(Head(cfg)) + NbActions(Tail(cfg))

\* The configurations: rules declaring at most MaxActions actions in all.
Configs ==
  { cfg \in UNION { [1..n -> ActionLists] : n \in 1..MaxActions } : NbActions(cfg) <= MaxActions }

NoTask(t) ==
  /\ sources' = [sources EXCEPT ![t] = <<>>]
  /\ match' = [match EXCEPT ![t] = <<>>]
  /\ seen' = [seen EXCEPT ![t] = [checks |-> <<>>, summary |-> NoSummary]]
  /\ previous_conclusions' = [previous_conclusions EXCEPT ![t] = load_conclusions(NoSummary)]
  /\ idx' = [idx EXCEPT ![t] = 0]
  /\ actions_ran' = [actions_ran EXCEPT ![t] = {}]
  /\ conclusions' = [conclusions EXCEPT ![t] = EmptyDict]
  /\ log' = [log EXCEPT ![t] = <<>>]

Init ==
  /\ rules \in Configs
  /\ checks = [n \in AllCheckNames(rules) |-> NoCheck]
  /\ summary \in {NoSummary, LegacySummary, CorruptSummary}
  /\ comments \in [1..Len(rules) -> {0}]
  /\ passes = 0
  /\ pc = [t \in Tasks |-> "idle"]
  /\ sources = [t \in Tasks |-> <<>>]
  /\ match = [t \in Tasks |-> <<>>]
  /\ seen = [t \in Tasks |-> [checks |-> <<>>, summary |-> NoSummary]]
  /\ previous_conclusions = [t \in Tasks |-> load_conclusions(NoSummary)]
  /\ idx = [t \in Tasks |-> 0]
  /\ actions_ran = [t \in Tasks |-> {}]
  /\ conclusions = [t \in Tasks |-> EmptyDict]
  /\ log = [t \in Tasks |-> <<>>]
  /\ summary_posted = [t \in Tasks |-> "none"]
  /\ merge_config = DefaultConfig
  /\ queue = FALSE
  /\ merge_log = <<>>
  /\ NoRuleFile

\* What the pull request snapshot of a pass makes of each rule.
Snapshots == [1..Len(rules) -> RuleStates]

\* The pairs the loop of task t goes through.
Pairs(t) == PairsOf(rules, match[t])

\* handle(), up to the call of run_actions, for the events (sources) and the pull
\* request snapshot the task is given: the match, the posted checks and the
\* previous conclusions are read, and run_actions sets up its locals.  An exception
\* of load_conclusions ends handle() there.
Deliver(t, src, pull) ==
  /\ pc[t] \in {"idle", "crashed"}
  /\ sources' = [sources EXCEPT ![t] = src]
  /\ match' = [match EXCEPT ![t] = matching_rules(pull)]
  /\ seen' = [seen EXCEPT ![t] = [checks |-> checks, summary |-> summary]]
  /\ previous_conclusions' = [previous_conclusions EXCEPT ![t] = load_conclusions(summary)]
  /\ idx' = [idx EXCEPT ![t] = IF load_conclusions(summary).raised THEN 0 ELSE 1]
  /\ actions_ran' = [actions_ran EXCEPT ![t] = {}]
  /\ conclusions' = [conclusions EXCEPT ![t] = EmptyDict]
  /\ log' = [log EXCEPT ![t] = <<>>]
  /\ pc' = [pc EXCEPT ![t] = IF load_conclusions(summary).raised THEN "crashed"
                              ELSE IF PairsOf(rules, matching_rules(pull)) = <<>>
                                THEN "post" ELSE "run"]
  /\ summary_posted' = [summary_posted EXCEPT ![t] = "none"]
  /\ merge_log' = <<>>
  /\ UNCHANGED <<rules, checks, summary, comments, merge_config, queue>>
  /\ UNCHANGED rules_vars

\* A new event reaches worker t.
Load(t) ==
  /\ passes < MaxPasses
  /\ passes' = passes + 1
  /\ \E src \in SourceLists, pull \in Snapshots : Deliver(t, src, pull)

\* What the method called in the next iteration of task t may produce (NoReport
\* stands for no call).
Outcomes(t) ==
  LET p == Pairs(t)[idx[t]]
      it == iteration(p, sources[t], previous_conclusions[t], seen[t].checks,
                      comments, actions_ran[t], NoReport)
  IN IF it.calls = <<>> THEN {NoReport}
     ELSE ActionReturns(p.action, method_name(p.missing_conditions))

\* One iteration of the loop of run_actions of task t, the method called producing
\* outcome; after the last iteration run_actions returns.  set_check_run posts the
\* check (its failure is caught and logged, and leaves the posted check as it was).
Iterate(t, outcome) ==
  /\ pc[t] = "run"
  /\ LET p == Pairs(t)[idx[t]]
         it == iteration(p, sources[t], previous_conclusions[t], seen[t].checks,
                         comments, actions_ran[t], outcome)
     IN /\ actions_ran' = [actions_ran EXCEPT ![t] = it.actions_ran]
        /\ conclusions' = [conclusions EXCEPT ![t] = Put(conclusions[t], it.check_name, it.conclusion)]
        /\ log' = [log EXCEPT ![t] = Append(log[t], it)]
        /\ checks' = IF it.published # <<>>
                       THEN [checks EXCEPT ![it.check_name] = it.conclusion]
                       ELSE checks
        /\ comments' = IF it.calls # <<>> /\ outcome = CommentPosted
                         THEN [comments EXCEPT ![p.rule] = comments[p.rule] + 1]
                         ELSE comments
  /\ idx' = [idx EXCEPT ![t] = idx[t] + 1]
  /\ pc' = [pc EXCEPT ![t] = IF idx[t] = Len(Pairs(t)) THEN "post" ELSE "run"]
  /\ UNCHANGED <<rules, summary, passes, sources, match, seen, previous_conclusions,
                 summary_posted>>
  /\ UNCHANGED rules_vars

RunAction(t) ==
  /\ pc[t] = "run"
  /\ \E outcome \in Outcomes(t) : Iterate(t, outcome)
  /\ UNCHANGED merge_vars

\* post_summary, and the end of handle().
PostSummary(t) ==
  /\ pc[t] = "post"
  /\ summary' = IF summary_changed(seen[t].summary, match[t], conclusions[t])
                  THEN new_summary(match[t], conclusions[t])
                  ELSE summary
  /\ summary_posted' =
       [summary_posted EXCEPT
          ![t] = IF summary_changed(seen[t].summary, match[t], conclusions[t])
                   THEN "posted" ELSE "unchanged"]
  /\ pc' = [pc EXCEPT ![t] = "idle"]
  /\ NoTask(t)
  /\ UNCHANGED <<rules, checks, comments, passes, merge_vars>>
  /\ UNCHANGED rules_vars

\* One worker: the passes follow one another.
Worker == "t1"

Next ==
  \/ Load(Worker)
  \/ RunAction(Worker)
  \/ PostSummary(Worker)

Spec == Init /\ [][Next]_vars

\* ------------------------------------------------------------- redelivery
\* An event delivered twice: a second worker is handed the event and the snapshot
\* of the first before the first has run any action, so both read the same posted
\* checks and the same Summary, and it runs its actions once the first has run its
\* own.  The external service answers a call of the second pass as it answered the
\* same call of the first.
Second == "t2"

Redeliver ==
  /\ pc[Worker] # "idle"
  /\ log[Worker] = <<>>
  /\ idx[Worker] = 1
  /\ \E pull \in Snapshots :
       /\ matching_rules(pull) = match[Worker]
       /\ Deliver(Second, sources[Worker], pull)
  /\ UNCHANGED passes

\* One iteration of the second pass: the external service answers its call as it
\* answered the same call of the first pass.
RunSecond ==
  /\ pc[Worker] = "post"
  /\ pc[Second] = "run"
  /\ LET first == log[Worker][idx[Second]]
         same == { o \in Outcomes(Second) : first.outcomes = <<o>> }
     IN \E outcome \in (IF Outcomes(Second) = {NoReport} \/ first.outcomes = <<>> \/ same = {}
                          THEN Outcomes(Second)
                          ELSE same) :
          Iterate(Second, outcome)
  /\ UNCHANGED merge_vars

NextRedelivery ==
  \/ (pc[Second] = "idle" /\ Load(Worker))
  \/ RunAction(Worker)
  \/ (pc[Second] \in {"idle", "post"} /\ PostSummary(Worker))
  \/ Redeliver
  \/ RunSecond
  \/ (pc[Worker] = "idle" /\ PostSummary(Second))

SpecRedelivery == Init /\ [][NextRedelivery]_vars

\* ------------------------------------------------------- concurrent passes
\* Two events for the same pull request handled at the same time: the second
\* worker starts before the first has run any action, so both read the same posted
\* checks and the same Summary; they see the same snapshot, each call of theirs
\* gets its own answer, and they publish their Summaries in either order.
RunConcurrent ==
  /\ pc[Worker] = "post"
  /\ pc[Second] = "run"
  /\ \E outcome \in Outcomes(Second) : Iterate(Second, outcome)
  /\ UNCHANGED merge_vars

PostConcurrent(t, other) ==
  /\ pc[other] \in {"idle", "post"}
  /\ PostSummary(t)

NextConcurrent ==
  \/ (passes = 0 /\ Load(Worker))
  \/ RunAction(Worker)
  \/ Redeliver
  \/ RunConcurrent
  \/ PostConcurrent(Worker, Second)
  \/ PostConcurrent(Second, Worker)

\* The pull request has no Summary yet.
InitConcurrent == Init /\ summary = NoSummary

SpecConcurrent == InitConcurrent /\ [][NextConcurrent]_vars

\* The answers the methods called by a pass over the pairs may get, one per pair.
Answers(pairs) ==
  { a \in [DOMAIN pairs ->
             MergeRunReturns \cup MergeCancelReturns \cup CommentRunReturns
               \cup BaseCancelReturns \cup OtherRunReturns] :
      \A k \in DOMAIN pairs :
        a[k] \in ActionReturns(pairs[k].action, method_name(pairs[k].missing_conditions)) }

\* run_actions from the k-th pair on: the conclusions it returns, the methods
\* called getting the answers given.
RECURSIVE run_actions(_, _, _, _, _, _, _, _)
run_actions(pairs, src, prev, chk, cmts, answers, k, ran) ==
  IF k > Len(pairs) THEN EmptyDict
  ELSE LET it == iteration(pairs[k], src, prev, chk, cmts, ran, answers[k])
           rest == run_actions(pairs, src, prev, chk, cmts, answers, k + 1, it.actions_ran)
       IN [n \in (DOMAIN rest) \cup {it.check_name} |->
             IF n \in DOMAIN rest THEN rest[n] ELSE it.conclusion]

\* ------------------------------------------------------- merging end to end
\* One rule that declares the merge action, on a pull request the engine has not
\* handled yet; each call of run() or cancel() is computed from the configuration
\* of the action and from what the pull request and the services answer.
InitMerge ==
  /\ rules = << <<"merge">> >>
  /\ checks = [n \in AllCheckNames(rules) |-> NoCheck]
  /\ summary = NoSummary
  /\ comments = [i \in 1..Len(rules) |-> 0]
  /\ passes = 0
  /\ pc = [t \in Tasks |-> "idle"]
  /\ sources = [t \in Tasks |-> <<>>]
  /\ match = [t \in Tasks |-> <<>>]
  /\ seen = [t \in Tasks |-> [checks |-> <<>>, summary |-> NoSummary]]
  /\ previous_conclusions = [t \in Tasks |-> load_conclusions(NoSummary)]
  /\ idx = [t \in Tasks |-> 0]
  /\ actions_ran = [t \in Tasks |-> {}]
  /\ conclusions = [t \in Tasks |-> EmptyDict]
  /\ log = [t \in Tasks |-> <<>>]
  /\ summary_posted = [t \in Tasks |-> "none"]
  /\ merge_config \in MergeConfigs
  /\ queue = FALSE
  /\ merge_log = <<>>
  /\ NoRuleFile

\* A new event reaches worker t; the missing conditions of a rule: none, statuses
\* that are not a success yet, approvals that are not there yet.
LoadMerge(t) ==
  /\ passes < MaxPasses
  /\ passes' = passes + 1
  /\ \E src \in SourceLists,
        pull \in [1..Len(rules) ->
                   { <<>>, <<"status-success=ci">>,
                     <<"status-success=ci", "status-success=lint">>,
                     <<"#approved-reviews-by>=2">>,
                     <<"status-success=ci", "#approved-reviews-by>=2">> }] :
       Deliver(t, src, pull)

\* What the call of the next iteration of task t does, for each thing the pull
\* request and the services may answer; no call, no result.
MergeResults(t) ==
  LET p == Pairs(t)[idx[t]]
      it == iteration(p, sources[t], previous_conclusions[t], seen[t].checks,
                      comments, actions_ran[t], NoReport)
  IN IF it.calls = <<>> THEN {}
     ELSE IF it.method_name = "run"
       THEN { MergeAction_run(merge_config, env, queue) : env \in RunEnvs }
     ELSE { MergeAction_cancel(merge_config, env, p.missing_conditions, queue) : env \in CancelEnvs }

\* One iteration of the loop of run_actions for the merge action.
RunMerge(t) ==
  /\ pc[t] = "run"
  /\ IF MergeResults(t) = {}
       THEN Iterate(t, NoReport) /\ UNCHANGED merge_vars
       ELSE \E res \in MergeResults(t) :
              /\ Iterate(t, res.report)
              /\ queue' = res.queue
              /\ merge_log' = Append(merge_log,
                                     [method |-> method_name(Pairs(t)[idx[t]].missing_conditions),
                                      missing_conditions |-> Pairs(t)[idx[t]].missing_conditions,
                                      queue_before |-> queue,
                                      result |-> res])
              /\ UNCHANGED merge_config

NextMerge ==
  \/ LoadMerge(Worker)
  \/ RunMerge(Worker)
  \/ PostSummary(Worker)

SpecMerge == InitMerge /\ [][NextMerge]_vars

\* ----------------------------------------------------------------- migration
\* A pull request the previous engine has handled: its Summary has no marker, it
\* has posted checks under the names of the rules and it may have posted the
\* comments of the rules.
InitLegacy ==
  /\ rules \in Configs
  /\ checks \in [AllCheckNames(rules) -> {NoCheck, "failure"}]
  /\ summary = LegacySummary
  /\ comments \in { c \in [1..Len(rules) -> {0, 1}] :
                       \A i \in 1..Len(rules) : c[i] = 1 => "comment" \in Range(rules[i]) }
  /\ passes = 0
  /\ pc = [t \in Tasks |-> "idle"]
  /\ sources = [t \in Tasks |-> <<>>]
  /\ match = [t \in Tasks |-> <<>>]
  /\ seen = [t \in Tasks |-> [checks |-> <<>>, summary |-> NoSummary]]
  /\ previous_conclusions = [t \in Tasks |-> load_conclusions(NoSummary)]
  /\ idx = [t \in Tasks |-> 0]
  /\ actions_ran = [t \in Tasks |-> {}]
  /\ conclusions = [t \in Tasks |-> EmptyDict]
  /\ log = [t \in Tasks |-> <<>>]
  /\ summary_posted = [t \in Tasks |-> "none"]
  /\ merge_config = DefaultConfig
  /\ queue = FALSE
  /\ merge_log = <<>>
  /\ NoRuleFile

SpecLegacy == InitLegacy /\ [][Next]_vars

\* ------------------------------------------------- the rules and their match
\* A condition as parsed: the attribute it is about, whether it counts the values
\* of the attribute ("#"), its operator and its operand.
Parsed(attribute_name, count, operator, operand) ==
  [attribute_name |-> attribute_name, count |-> count, operator |-> operator, operand |-> operand]

parse(condition) ==
  CASE condition = "base=master" -> Parsed("base", FALSE, "=", "master")
    [] condition = "author=mybot" -> Parsed("author", FALSE, "=", "mybot")
    [] condition = "#files=2" -> Parsed("files", TRUE, "=", 2)
    [] condition = "label=fast-track" -> Parsed("label", FALSE, "=", "fast-track")
    [] condition = "status-success=ci" -> Parsed("status-success", FALSE, "=", "ci")
    [] condition = "#approved-reviews-by>=1" -> Parsed("approved-reviews-by", TRUE, ">=", 1)
    [] condition = "#approved-reviews-by>=2" -> Parsed("approved-reviews-by", TRUE, ">=", 2)

\* The conditions of a rule, in the order the rule declares them.
ConditionLists ==
  { <<>>,
    <<"#files=2">>,
    <<"base=master", "status-success=ci", "#approved-reviews-by>=2">>,
    <<"label=fast-track", "base=master", "status-success=ci", "#approved-reviews-by>=1">>,
    <<"base=master", "author=mybot", "status-success=ci">> }

\* The structural attributes: a false condition on one of them excludes the rule.
structural(condition) == parse(condition).attribute_name \in {"base", "author", "files"}

\* The pull request as the conditions see it: each attribute with its values.
Pull(base, author, files, label, statuses, approvals) ==
  [a \in {"base", "author", "files", "label", "status-success", "approved-reviews-by"} |->
     CASE a = "base" -> {base}
       [] a = "author" -> {author}
       [] a = "files" -> files
       [] a = "label" -> label
       [] a = "status-success" -> statuses
       [] a = "approved-reviews-by" -> approvals]

Pulls ==
  { Pull(base, author, files, label, statuses, approvals) :
      base \in {"master", "xyz"}, author \in {"jd", "mybot"},
      files \in {{"README.rst", "setup.py"}, {"README.rst", "setup.py", "tox.ini"}},
      label \in {{}, {"fast-track"}}, statuses \in {{}, {"ci"}},
      approvals \in {{}, {"sileht"}, {"sileht", "jd"}} }

\* The condition holds on the pull request.
evaluate_condition(condition, pull) ==
  LET c == parse(condition)
      values == pull[c.attribute_name]
  IN IF c.count
       THEN IF c.operator = "=" THEN Cardinality(values) = c.operand
            ELSE Cardinality(values) >= c.operand
       ELSE c.operand \in values

\* Mutant: the conditions that do not hold are listed last declared first.
failed_conditions_reversed(rule, pull) ==
  LET failed == SelectSeq(rule.conditions, LAMBDA c : ~evaluate_condition(c, pull))
  IN [k \in 1..Len(failed) |-> failed[Len(failed) + 1 - k]]

\* The conditions of the rule that do not hold, in the order of the rule.
failed_conditions(rule, pull) ==
  SelectSeq(rule.conditions, LAMBDA c : ~evaluate_condition(c, pull))

\* Mutant: a false structural condition is one more missing condition.
ignored_never(rule, pull) == FALSE

\* The rule has a structural condition that does not hold.
ignored(rule, pull) ==
  \E k \in DOMAIN rule.conditions :
    structural(rule.conditions[k]) /\ ~evaluate_condition(rule.conditions[k], pull)

\* The rules from the i-th on that are not ignored, or those that are when
\* excluded is set, each with its conditions that do not hold.
RECURSIVE Classified(_, _, _, _)
Classified(rule_set, pull, excluded, i) ==
  IF i > Len(rule_set) THEN <<>>
  ELSE (IF ignored(rule_set[i], pull) = excluded
          THEN << [rule |-> rule_set[i],
                   missing_conditions |-> failed_conditions(rule_set[i], pull)] >>
          ELSE <<>>)
       \o Classified(rule_set, pull, excluded, i + 1)

\* get_pull_request_rule: the RuleMatch of the rules on the pull request.
get_pull_request_rule(rule_set, pull) ==
  [rules |-> rule_set,
   matching_rules |-> Classified(rule_set, pull, FALSE, 1),
   ignored_rules |-> Classified(rule_set, pull, TRUE, 1)]

\* The rules of the file as loaded: those of a name given more than once get a
\* number after it, the k-th rule of the name the number k.
load_pull_request_rules_schema(file) ==
  [i \in DOMAIN file |->
     [file[i] EXCEPT
        !.name =
          IF Cardinality({ j \in DOMAIN file : file[j].name = file[i].name }) > 1
            THEN file[i].name \o " #"
                   \o <<"1", "2", "3", "4">>[
                        Cardinality({ j \in 1..i : file[j].name = file[i].name })]
            ELSE file[i].name]]

\* The files: rules without conditions and with any names, some of them of the
\* form a renamed rule gets, and rules of different names with any conditions.
RuleFiles ==
  UNION { [1..n -> [name : {"hello", "foobar", "hello #1", "hello #2"},
                    conditions : {<<>>}]] : n \in 1..MaxRules }
  \cup UNION { { [i \in 1..n |->
                    [name |-> <<"merge", "fast merge", "fast merge from a bot", "default">>[i],
                     conditions |-> conds[i]]] :
                   conds \in [1..n -> ConditionLists] } : n \in 1..MaxRules }

\* The state of the engine, which the loading and the match of the rules leave alone.
engine_vars ==
  <<rules, checks, summary, comments, passes, pc, sources, match, seen,
    previous_conclusions, idx, actions_ran, conclusions, log, summary_posted, merge_vars>>

InitRules ==
  /\ rules = << <<"merge">> >>
  /\ checks = [n \in AllCheckNames(rules) |-> NoCheck]
  /\ summary = NoSummary
  /\ comments = [i \in 1..Len(rules) |-> 0]
  /\ passes = 0
  /\ pc = [t \in Tasks |-> "idle"]
  /\ sources = [t \in Tasks |-> <<>>]
  /\ match = [t \in Tasks |-> <<>>]
  /\ seen = [t \in Tasks |-> [checks |-> <<>>, summary |-> NoSummary]]
  /\ previous_conclusions = [t \in Tasks |-> load_conclusions(NoSummary)]
  /\ idx = [t \in Tasks |-> 0]
  /\ actions_ran = [t \in Tasks |-> {}]
  /\ conclusions = [t \in Tasks |-> EmptyDict]
  /\ log = [t \in Tasks |-> <<>>]
  /\ summary_posted = [t \in Tasks |-> "none"]
  /\ merge_config = DefaultConfig
  /\ queue = FALSE
  /\ merge_log = <<>>
  /\ rule_file \in RuleFiles
  /\ pull_request_rules = <<>>
  /\ matched = NoMatch

\* The configuration file is loaded.
LoadRules ==
  /\ pull_request_rules = <<>>
  /\ pull_request_rules' = load_pull_request_rules_schema(rule_file)
  /\ UNCHANGED <<rule_file, matched, engine_vars>>

\* The loaded rules are matched against the pull request of the invocation.
MatchRules ==
  /\ pull_request_rules # <<>>
  /\ ~matched.done
  /\ \E pull \in Pulls :
       matched' = [done |-> TRUE, pull |-> pull,
                   match |-> get_pull_request_rule(pull_request_rules, pull)]
  /\ UNCHANGED <<rule_file, pull_request_rules, engine_vars>>

NextRules ==
  \/ LoadRules
  \/ MatchRules

SpecRules == InitRules /\ [][NextRules]_vars

\* ------------------------------------------------------------------ claims
\* run_actions of task t has returned.
Returned(t) == pc[t] = "post"

\* The iterations task t has made so far.
Iterations(t) == DOMAIN log[t]

\* Iteration k of task t called the action's method.
Invoked(t, k) == log[t][k].calls # <<>>

\* Iteration k of task t called run() of the action.
InvokedRun(t, k) == Invoked(t, k) /\ log[t][k].calls[1].method = "run"

\* The missing conditions the match of task t gives rule r.
MissingOf(t, r) == (CHOOSE m \in Range(match[t]) : m.rule = r).missing_conditions

\* An earlier iteration of the pass chose run for the same action.
EarlierRun(t, k) ==
  \E j \in Iterations(t) :
    j < k /\ log[t][j].action = log[t][k].action /\ log[t][j].method_name = "run"

\* The set_check_run calls of task t, in order.
Published(t) == Flatten([k \in Iterations(t) |-> log[t][k].published])

HasRefresh(t) == \E k \in DOMAIN sources[t] : sources[t][k].event_type = "refresh"

HasUserRefresh(t) ==
  \E k \in DOMAIN sources[t] : sources[t][k] = [event_type |-> "refresh", action |-> "user"]

HasForcedRefresh(t) ==
  \E k \in DOMAIN sources[t] : sources[t][k] = [event_type |-> "refresh", action |-> "forced"]

\* The previous conclusions of task t hold the check name of iteration k.
name_in_previous(t, k) == log[t][k].check_name \in DOMAIN previous_conclusions[t].map

\* ---- C1
\* The second pass was given what the first was given: the same sources, the same
\* match, the same posted checks, the same previous conclusions.
SameInputs ==
  /\ Returned(Worker) /\ Returned(Second)
  /\ sources[Worker] = sources[Second]
  /\ match[Worker] = match[Second]
  /\ seen[Worker] = seen[Second]
  /\ previous_conclusions[Worker] = previous_conclusions[Second]

\* A call made by both passes had the same result.
SameResults ==
  \A k \in Iterations(Worker) \cap Iterations(Second) :
    (Invoked(Worker, k) /\ log[Worker][k].calls = log[Second][k].calls)
      => log[Worker][k].outcomes = log[Second][k].outcomes

\* C1: two invocations of run_actions with the same sources, match, posted checks
\* and previous conclusions, whose action calls give the same results, return the
\* same conclusions and make the same set_check_run calls.
C1_Idempotent ==
  (SameInputs /\ SameResults)
    => /\ conclusions[Worker] = conclusions[Second]
       /\ Published(Worker) = Published(Second)

\* C1 witness: both invocations returned, the first called an action and posted a
\* check that the second had read as it was before.
C1_Witness ==
  /\ SameInputs /\ SameResults
  /\ \E k \in Iterations(Worker) : Invoked(Worker, k)
  /\ Published(Worker) # <<>>
  /\ checks # seen[Second].checks

\* ---- C2
\* The matching rules of task t that have no missing condition and declare merge.
MergeRules(t) ==
  { m \in Range(match[t]) : m.missing_conditions = <<>> /\ "merge" \in Range(rules[m.rule]) }

\* The iterations of task t that called run() of merge.
MergeRuns(t) == { k \in Iterations(t) : InvokedRun(t, k) /\ log[t][k].action = "merge" }

\* The iteration of the first rule of MergeRules(t), for merge.
FirstMerge(t) ==
  CHOOSE k \in Iterations(t) :
    /\ log[t][k].action = "merge" /\ log[t][k].method_name = "run"
    /\ ~EarlierRun(t, k)

\* C2 as claimed: in a pass with two matching rules without missing conditions that
\* both declare merge, run() of merge is called exactly once.
C2_ExactlyOneMergeRun ==
  \A t \in Tasks :
    (Returned(t) /\ Cardinality(MergeRules(t)) >= 2) => Cardinality(MergeRuns(t)) = 1

\* C2 amended: in such a pass run() of merge is called at most once; it is called
\* once when need_to_be_run holds for the merge of the first of these rules, and not
\* at all otherwise.
C2_AtMostOneMergeRun ==
  \A t \in Tasks :
    (Returned(t) /\ Cardinality(MergeRules(t)) >= 2)
      => /\ Cardinality(MergeRuns(t)) <= 1
         /\ (log[t][FirstMerge(t)].need_to_be_run => MergeRuns(t) = {FirstMerge(t)})
         /\ (~log[t][FirstMerge(t)].need_to_be_run => MergeRuns(t) = {})

\* C2 witness: a pass of two such rules that called run() of merge once, for the
\* first rule, while the second rule's merge also needed to be run.
C2_Witness ==
  \E t \in Tasks :
    /\ Returned(t) /\ Cardinality(MergeRules(t)) >= 2
    /\ Cardinality(MergeRuns(t)) = 1
    /\ \E k \in Iterations(t) : EarlierRun(t, k) /\ log[t][k].need_to_be_run

RunsOf(t, a) == { k \in Iterations(t) : InvokedRun(t, k) /\ log[t][k].action = a }

\* C4: in a pass, run() of an only_once action is called at most once, and the rule
\* it is called for is the first whose action is to be run (no missing condition,
\* need_to_be_run true).
C4_OnceOnlyFirstRule ==
  \A t \in Tasks : \A a \in ActionNames :
    only_once(a)
      => /\ Cardinality(RunsOf(t, a)) <= 1
         /\ \A k \in RunsOf(t, a) : \A j \in Iterations(t) :
              (j < k /\ log[t][j].action = a)
                => ~(log[t][j].method_name = "run" /\ log[t][j].need_to_be_run)

\* C4 witness: under a forced refresh, of two rules without missing conditions that
\* declare merge, the first had run() called and the second had not.
C4_Witness ==
  \E t \in Tasks : \E j, k \in Iterations(t) :
    /\ j < k /\ HasForcedRefresh(t)
    /\ log[t][j].action = "merge" /\ log[t][k].action = "merge"
    /\ InvokedRun(t, j)
    /\ log[t][k].method_name = "run" /\ ~Invoked(t, k)

\* ---- C5
ExpectedOf(method) ==
  IF method = "cancel" THEN {"neutral", "cancelled"} ELSE {"success", "failure"}

\* C5: need_to_be_run of an iteration is true exactly when the action is flagged
\* always_run, or the sources hold a forced refresh, or they hold a user refresh and
\* the previous conclusion is failure, or the previous conclusion is not one the
\* selected method expects.
C5_NeedToBeRun ==
  \A t \in Tasks : \A k \in Iterations(t) :
    log[t][k].need_to_be_run
      <=> \/ always_run(log[t][k].action)
          \/ HasForcedRefresh(t)
          \/ (HasUserRefresh(t) /\ log[t][k].previous_conclusion = "failure")
          \/ log[t][k].previous_conclusion \notin ExpectedOf(log[t][k].method_name)

\* C5 witness: a user refresh alone made a failed run need to be run.
C5_Witness ==
  \E t \in Tasks : \E k \in Iterations(t) :
    /\ log[t][k].need_to_be_run
    /\ ~always_run(log[t][k].action) /\ ~HasForcedRefresh(t)
    /\ HasUserRefresh(t) /\ log[t][k].previous_conclusion = "failure"
    /\ log[t][k].method_name = "run"

\* ---- C6
\* C6: the method selected for a pair is cancel when the rule has missing conditions
\* and run otherwise, with the conclusions that method expects, and a call that is
\* made is a call of the selected method with the rule's missing conditions.
C6_SelectedMethod ==
  \A t \in Tasks : \A k \in Iterations(t) :
    LET e == log[t][k]
        missing == MissingOf(t, e.rule)
    IN /\ e.method_name = (IF missing # <<>> THEN "cancel" ELSE "run")
       /\ Range(e.expected_conclusions) = ExpectedOf(e.method_name)
       /\ Invoked(t, k)
            => /\ e.calls[1].method = (IF missing # <<>> THEN "cancel" ELSE "run")
               /\ e.calls[1].missing_conditions = missing
               /\ e.calls[1].action = e.action

\* C6 witness: cancel was called with the rule's missing conditions.
C6_Witness ==
  \E t \in Tasks : \E k \in Iterations(t) :
    /\ Invoked(t, k)
    /\ log[t][k].calls[1].method = "cancel"
    /\ log[t][k].calls[1].missing_conditions = <<"status-success=ci">>

\* ---- C7
\* C7: a pair whose need_to_be_run is false has no method called, no check posted
\* under its name, and its previous conclusion as its new conclusion.
C7_SkippedKeepsConclusion ==
  \A t \in Tasks : \A k \in Iterations(t) :
    ~log[t][k].need_to_be_run
      => /\ ~Invoked(t, k)
         /\ log[t][k].published = <<>>
         /\ \A c \in Range(Published(t)) : c.name # log[t][k].check_name
         /\ conclusions[t][log[t][k].check_name] = log[t][k].previous_conclusion

\* C7 witness: the check of a merge that had failed is carried forward unposted.
C7_Witness ==
  \E t \in Tasks : \E k \in Iterations(t) :
    /\ ~log[t][k].need_to_be_run
    /\ log[t][k].action = "merge"
    /\ conclusions[t][log[t][k].check_name] = "failure"

\* ---- C8
\* C8: a pair whose method raised is recorded as failure, and a pass that returns
\* has evaluated every pair of its matching rules: its conclusions have an entry
\* for each of them.
C8_ExceptionIsolated ==
  \A t \in Tasks :
    /\ \A k \in Iterations(t) :
         log[t][k].outcomes = <<Raise>>
           => conclusions[t][log[t][k].check_name] = "failure"
    /\ Returned(t)
         => /\ Len(log[t]) = Len(Pairs(t))
            /\ DOMAIN conclusions[t] =
                 { check_name(Pairs(t)[k].rule, Pairs(t)[k].action) : k \in DOMAIN Pairs(t) }

\* C8 witness: the first pair's method raised and the pass went on to call the
\* method of the second pair.
C8_Witness ==
  \E t \in Tasks :
    /\ Returned(t) /\ Len(log[t]) = 2
    /\ log[t][1].outcomes = <<Raise>>
    /\ Invoked(t, 2)
    /\ conclusions[t][log[t][1].check_name] = "failure"

\* ---- C9
\* C9 as claimed: for a check whose previous conclusion is failure and whose rule
\* has no missing condition, a pass without refresh event does not call the action,
\* and a pass with a user refresh has need_to_be_run true and calls run().
C9_RetryOnUserRefresh ==
  \A t \in Tasks : \A k \in Iterations(t) :
    (log[t][k].previous_conclusion = "failure" /\ MissingOf(t, log[t][k].rule) = <<>>)
      => /\ ~HasRefresh(t) => ~Invoked(t, k)
         /\ HasUserRefresh(t) => (log[t][k].need_to_be_run /\ InvokedRun(t, k))

\* C9 amended: the pass without refresh event does not call the action unless it is
\* flagged always_run, and the pass with a user refresh has need_to_be_run true and
\* calls run() unless an earlier rule of the pass has run the same only_once action.
C9_RetryUnlessPreempted ==
  \A t \in Tasks : \A k \in Iterations(t) :
    (log[t][k].previous_conclusion = "failure" /\ MissingOf(t, log[t][k].rule) = <<>>)
      => /\ (~HasRefresh(t) /\ ~always_run(log[t][k].action)) => ~Invoked(t, k)
         /\ HasUserRefresh(t)
              => /\ log[t][k].need_to_be_run
                 /\ ~(only_once(log[t][k].action) /\ EarlierRun(t, k)) => InvokedRun(t, k)

\* C9 witness: a merge that had failed is run again by a pass with a user refresh
\* and no forced one.
C9_Witness ==
  \E t \in Tasks : \E k \in Iterations(t) :
    /\ log[t][k].previous_conclusion = "failure"
    /\ log[t][k].action = "merge"
    /\ HasUserRefresh(t) /\ ~HasForcedRefresh(t)
    /\ InvokedRun(t, k)

\* ---- C10
\* C10 as claimed: in a pass whose sources hold a forced refresh, every action of
\* every matching rule is called, run or cancel according to the rule's missing
\* conditions.
C10_ForcedRunsAll ==
  \A t \in Tasks : \A k \in Iterations(t) :
    HasForcedRefresh(t)
      => /\ Invoked(t, k)
         /\ log[t][k].calls[1].method =
              (IF MissingOf(t, log[t][k].rule) # <<>> THEN "cancel" ELSE "run")

\* C10 amended: in such a pass every action has need_to_be_run true and is called,
\* whatever its previous conclusion, except an only_once action that an earlier rule
\* of the pass has run: that one is not called and is recorded as success.
C10_ForcedRunsAllButOnce ==
  \A t \in Tasks : \A k \in Iterations(t) :
    HasForcedRefresh(t)
      => /\ log[t][k].need_to_be_run
         /\ IF only_once(log[t][k].action) /\ EarlierRun(t, k)
              THEN ~Invoked(t, k) /\ conclusions[t][log[t][k].check_name] = "success"
              ELSE /\ Invoked(t, k)
                   /\ log[t][k].calls[1].method =
                        (IF MissingOf(t, log[t][k].rule) # <<>> THEN "cancel" ELSE "run")

\* C10 witness: a forced refresh called run() of an action whose previous
\* conclusion was success.
C10_Witness ==
  \E t \in Tasks : \E k \in Iterations(t) :
    /\ HasForcedRefresh(t)
    /\ log[t][k].previous_conclusion = "success"
    /\ name_in_previous(t, k)
    /\ InvokedRun(t, k)

\* ---- C12
\* handle() of task t has read the Summary and the previous conclusions.
Loaded(t) == pc[t] \in {"run", "post", "crashed"}

\* The last line of the Summary task t read is a delimited marker.
HasMarker(s) == s.present /\ s.last.prefix = "<!-- " /\ s.last.suffix = " -->"

C13_FlagInBothCases ==
  \A t \in Tasks :
    (Loaded(t) /\ ~HasMarker(seen[t].summary))
      => previous_conclusions[t] =
           [deprecated_summary |-> TRUE, map |-> EmptyDict, raised |-> FALSE]

\* C13 amended: in both cases load_conclusions returns no conclusion; the legacy
\* flag is set for a Summary without marker and is not set without Summary.
C13_FlagOnlyWithSummary ==
  \A t \in Tasks :
    (Loaded(t) /\ ~HasMarker(seen[t].summary))
      => /\ previous_conclusions[t].map = EmptyDict
         /\ ~previous_conclusions[t].raised
         /\ previous_conclusions[t].deprecated_summary <=> seen[t].summary.present

\* C13 witness: a pass has read a Summary without marker and has the legacy flag.
C13_Witness ==
  \E t \in Tasks :
    /\ pc[t] = "run" /\ seen[t].summary = LegacySummary
    /\ previous_conclusions[t].deprecated_summary

\* ---- C14
\* C14 as claimed: a pass that reads a Summary whose marker holds an undecodable
\* payload goes on with no previous conclusion and the legacy flag: handle() is
\* not left by an exception.
C14_CorruptNotFatal ==
  \A t \in Tasks :
    (Loaded(t) /\ HasMarker(seen[t].summary) /\ seen[t].summary.last.payload = Undecodable)
      => /\ pc[t] # "crashed"
         /\ previous_conclusions[t] =
              [deprecated_summary |-> TRUE, map |-> EmptyDict, raised |-> FALSE]

\* ---- C15
\* C15 as claimed: a pass that reaches post_summary publishes the Summary.
C15_AlwaysPublished ==
  \A t \in Tasks : summary_posted[t] # "unchanged"

\* C15 amended: post_summary, reached by every pass whose loop is over, publishes
\* the Summary exactly when the pass read no Summary or the title or the body it
\* read differ from the new ones; otherwise the Summary stays as it is.
C15_PublishedWhenChanged ==
  [][\A t \in Tasks :
       (pc[t] = "post" /\ pc'[t] = "idle")
         => LET new == new_summary(match[t], conclusions[t])
                same == /\ seen[t].summary.present
                        /\ seen[t].summary.title = new.title
                        /\ seen[t].summary.text = new.text
                        /\ seen[t].summary.last = new.last
            IN /\ summary_posted'[t] = (IF same THEN "unchanged" ELSE "posted")
               /\ summary' = (IF same THEN summary ELSE new)]_vars

\* C15 witness: a pass in which a method raised has published its Summary, which
\* records the failure.
C15_Witness ==
  \E t \in Tasks :
    /\ pc[t] = "idle" /\ summary_posted[t] = "posted"
    /\ HasMarker(summary)
    /\ "failure" \in Range(load_conclusions(summary).map)

\* ---- C16
\* C16 as claimed: an invoked method that returns no report leaves its check
\* recorded as success, run and cancel alike.
C16_NoReportIsSuccess ==
  \A t \in Tasks : \A k \in Iterations(t) :
    (Invoked(t, k) /\ log[t][k].outcomes = <<NoReport>>)
      => conclusions[t][log[t][k].check_name] = "success"

\* C16 amended: such a check is recorded with the first conclusion its method
\* expects, success for run and neutral for cancel, and no check is posted for it.
C16_NoReportIsExpected ==
  \A t \in Tasks : \A k \in Iterations(t) :
    (Invoked(t, k) /\ log[t][k].outcomes = <<NoReport>>)
      => /\ conclusions[t][log[t][k].check_name] =
              (IF log[t][k].method_name = "run" THEN "success" ELSE "neutral")
         /\ log[t][k].published = <<>>

\* C16 witness: a cancel that returned nothing is recorded as neutral.
C16_Witness ==
  \E t \in Tasks : \E k \in Iterations(t) :
    /\ Invoked(t, k) /\ log[t][k].outcomes = <<NoReport>>
    /\ log[t][k].method_name = "cancel"
    /\ conclusions[t][log[t][k].check_name] = "neutral"

\* ---- C17
\* The comments of the rule of iteration k that were on the pull request when the
\* iteration began.
CommentsBefore(t, k) ==
  comments[log[t][k].rule] - (IF log[t][k].outcomes = <<CommentPosted>> THEN 1 ELSE 0)

\* The stored value, else the posted check's conclusion, else neutral.
StoredElsePosted(t, k) ==
  IF name_in_previous(t, k) THEN previous_conclusions[t].map[log[t][k].check_name]
  ELSE IF seen[t].checks[log[t][k].check_name] # NoCheck
    THEN seen[t].checks[log[t][k].check_name]
  ELSE "neutral"

\* C17 as claimed: the previous conclusion of a check name is the value stored in
\* the previous conclusions when there is one, else the conclusion of the posted
\* check of that name when there is one, else neutral.
C17_PreviousConclusion ==
  \A t \in Tasks : \A k \in Iterations(t) :
    log[t][k].previous_conclusion = StoredElsePosted(t, k)

\* C17 amended: it is so except for a comment action when the previous Summary had
\* no marker and the rule's comment is already on the pull request: the previous
\* conclusion is then success.
C17_PreviousUnlessCommented ==
  \A t \in Tasks : \A k \in Iterations(t) :
    log[t][k].previous_conclusion =
      IF /\ previous_conclusions[t].deprecated_summary
         /\ log[t][k].action = "comment"
         /\ CommentsBefore(t, k) > 0
        THEN "success"
        ELSE StoredElsePosted(t, k)

\* C17 witness: in one pass, a stored pending value is taken as it is, and a check
\* name that the previous conclusions do not hold takes the conclusion of the
\* posted check.
C17_Witness ==
  \E t \in Tasks : \E j, k \in Iterations(t) :
    /\ name_in_previous(t, j)
    /\ previous_conclusions[t].map[log[t][j].check_name] = None
    /\ log[t][j].previous_conclusion = None
    /\ ~name_in_previous(t, k)
    /\ seen[t].checks[log[t][k].check_name] = "failure"
    /\ log[t][k].previous_conclusion = "failure"

\* ---- C11
\* The call of the merge action the pass of task t has made.
MergeCall(t) == merge_log[1]

\* The step s is among the steps of the call e.
Did(e, op) == \E i \in DOMAIN e.result.steps : e.result.steps[i].op = op

\* The pass of task t is the first in which the rule has no missing condition.
FirstSatisfied(t) ==
  /\ MissingOf(t, 1) = <<>>
  /\ seen[t].summary.present => seen[t].summary.text[1].missing_conditions # <<>>

ReachedMerge(e) ==
  /\ e.method = "run"
  /\ \/ Did(e, "client.put")
     \/ e.result.report = <<"action_required", "Automatic rebasing is not possible, manual intervention required", "">>

\* C18: with strict = smart, a call of run() that gets to the merge attempt ends by
\* removing the pull request from the queue, whether the attempt gave a report or
\* raised: the pull request is not in the queue when run() is over.
C18_SmartAlwaysDequeues ==
  \A k \in DOMAIN merge_log :
    (merge_config.strict = "smart" /\ ReachedMerge(merge_log[k]))
      => /\ merge_log[k].result.steps[Len(merge_log[k].result.steps)].op = "queue.remove_pull"
         /\ ~merge_log[k].result.queue
         /\ ~queue

\* C18 witness: the pull request was in the queue, the merge request raised, and
\* the pull request is out of the queue.
C18_Witness ==
  \E k \in DOMAIN merge_log :
    /\ merge_config.strict = "smart" /\ ReachedMerge(merge_log[k])
    /\ merge_log[k].queue_before
    /\ merge_log[k].result.report = Raise
    /\ ~queue

\* ---- C19
\* The call e of run() had its merge request refused by the API and did not find
\* the pull request merged afterwards.
MergeRefused(e) ==
  e.method = "run" /\ e.result.put.kind = "client_error" /\ ~e.result.merged

\* C19 as claimed: a refusal whose message contains "Head branch was modified" is
\* reported cancelled; another one with status 405 is reported pending, waiting
\* for the branch protection; any other is reported as a failure.
C19_ErrorClasses ==
  \A k \in DOMAIN merge_log :
    LET e == merge_log[k]
        head == "Head branch was modified" \in e.result.put.message
    IN MergeRefused(e)
         => /\ head => e.result.report[1] = "cancelled"
            /\ (~head /\ e.result.put.status_code = 405)
                 => e.result.report = <<None, "Waiting for the Branch Protection to be validated", "">>
            /\ (~head /\ e.result.put.status_code # 405)
                 => e.result.report = <<"failure", "Mergify failed to merge the pull request", "">>

\* C19 amended: the last two classes are those of the refusals whose message does
\* not contain "Base branch was modified" either.
C19_ErrorClassesButBase ==
  \A k \in DOMAIN merge_log :
    LET e == merge_log[k]
        head == "Head branch was modified" \in e.result.put.message
        base == "Base branch was modified" \in e.result.put.message
    IN MergeRefused(e)
         => /\ head => e.result.report = <<"cancelled", "Head branch was modified in the meantime", "">>
            /\ (~head /\ ~base /\ e.result.put.status_code = 405)
                 => e.result.report = <<None, "Waiting for the Branch Protection to be validated", "">>
            /\ (~head /\ ~base /\ e.result.put.status_code # 405)
                 => e.result.report = <<"failure", "Mergify failed to merge the pull request", "">>

\* C19 witness: a refusal with status 405 and none of the two messages is reported
\* pending.
C19_Witness ==
  \E k \in DOMAIN merge_log :
    /\ MergeRefused(merge_log[k])
    /\ merge_log[k].result.put.message = {}
    /\ merge_log[k].result.put.status_code = 405
    /\ merge_log[k].result.report[1] = None

\* ---- C20
\* The call e ran _sync_with_base_branch after its merge request: the base branch
\* cannot be modified, or the pull request was queued, or its branch was updated.
Resynced(e) ==
  \/ e.result.report = <<"failure", "Pull request can't be updated with latest base branch changes, owner doesn't allow modification", "">>
  \/ Did(e, "queue.add_pull")
  \/ Did(e, "update_pull_base_branch")

\* C20 as claimed: a refused merge request whose message contains "Base branch was
\* modified" is followed by a new synchronisation with the base branch.
C20_BaseModifiedResyncs ==
  \A k \in DOMAIN merge_log :
    LET e == merge_log[k]
    IN (e.method = "run" /\ e.result.put.kind = "client_error"
          /\ "Base branch was modified" \in e.result.put.message)
         => Resynced(e)

\* C20 amended: it is so when the message does not contain "Head branch was
\* modified" and the pull request is not found merged after the refusal.
C20_BaseModifiedResyncsUnlessHead ==
  \A k \in DOMAIN merge_log :
    LET e == merge_log[k]
    IN (MergeRefused(e)
          /\ "Base branch was modified" \in e.result.put.message
          /\ "Head branch was modified" \notin e.result.put.message)
         => Resynced(e)

\* C20 witness: after such a refusal the branch of the pull request was updated.
C20_Witness ==
  \E k \in DOMAIN merge_log :
    /\ MergeRefused(merge_log[k])
    /\ merge_log[k].result.put.message = {"Base branch was modified"}
    /\ Did(merge_log[k], "update_pull_base_branch")
    /\ merge_log[k].result.report[1] = None

\* ---- C21
\* The call e has read the attribute op of the pull request and found value.
Read(e, op, value) ==
  \E i \in DOMAIN e.result.steps :
    e.result.steps[i].op = op /\ e.result.steps[i].arg = value

\* The call e has made the call op with the argument arg.
DidWith(e, op, arg) == Read(e, op, arg)

\* The call e of run() found the pull request open and, strict being set, behind
\* its base branch.
RunBehind(e) ==
  /\ e.method = "run"
  /\ truthy(merge_config.strict)
  /\ Read(e, "ctxt.is_behind", "True")

\* C21: a call of run() with strict set that finds the pull request behind its
\* base branch sends no merge request; it reports a failure when the base branch
\* cannot be modified, else with strict = smart it queues the pull request with
\* strict_method and reports pending, else it updates the branch with
\* strict_method and returns what the update returns.
C21_BehindSyncsWithoutMerging ==
  \A k \in DOMAIN merge_log :
    LET e == merge_log[k]
    IN RunBehind(e)
         => /\ ~Did(e, "client.put")
            /\ e.result.put = NoPut
            /\ Read(e, "ctxt.pull_base_is_modifiable", "False")
                 => /\ e.result.report[1] = "failure"
                    /\ ~Did(e, "queue.add_pull") /\ ~Did(e, "update_pull_base_branch")
                    /\ e.result.queue = e.queue_before
            /\ (Read(e, "ctxt.pull_base_is_modifiable", "True") /\ merge_config.strict = "smart")
                 => /\ DidWith(e, "queue.add_pull", merge_config.strict_method)
                    /\ ~Did(e, "update_pull_base_branch")
                    /\ e.result.report = <<None, "Base branch will be updated soon", "">>
                    /\ e.result.queue
            /\ (Read(e, "ctxt.pull_base_is_modifiable", "True") /\ merge_config.strict # "smart")
                 => /\ DidWith(e, "update_pull_base_branch", merge_config.strict_method)
                    /\ ~Did(e, "queue.add_pull")
                    /\ e.result.report \in UpdateReturns
                    /\ e.result.queue = e.queue_before

\* C21 witness: with strict = smart and strict_method = rebase, a call of run()
\* has found the pull request behind, queued it for a rebase and reported pending.
C21_Witness ==
  \E k \in DOMAIN merge_log :
    /\ RunBehind(merge_log[k])
    /\ merge_config.strict = "smart" /\ merge_config.strict_method = "rebase"
    /\ DidWith(merge_log[k], "queue.add_pull", "rebase")
    /\ merge_log[k].result.report[1] = None
    /\ queue

\* ---- C22
\* The call e of cancel() returned the report that waits for the statuses, and
\* neither cancelled nor touched the queue.
WaitsForCI(e) ==
  /\ e.result.report = get_wait_for_ci_report
  /\ ~Did(e, "queue.remove_pull")
  /\ e.result.queue = e.queue_before

\* Every missing condition of the call e is a condition on a status.
OnlyStatusesMissing(e) ==
  /\ e.missing_conditions # <<>>
  /\ \A c \in Range(e.missing_conditions) : c \in StatusConditions

\* The state the call e has read for the status the condition c names.
StateRead(e, c) ==
  IF Read(e, "ctxt.checks." \o CheckOf(c), "pending") THEN "pending"
  ELSE IF Read(e, "ctxt.checks." \o CheckOf(c), "failure") THEN "failure"
  ELSE "absent"

\* C22 as claimed: cancel() waits exactly when strict is set, the pull request is
\* not closed, every missing condition is on a status and each of these statuses
\* is pending or not reported.
C22_WaitsIffAllPending ==
  \A k \in DOMAIN merge_log :
    LET e == merge_log[k]
    IN (e.method = "cancel" /\ e.result.report # Raise)
         => (WaitsForCI(e)
               <=> /\ truthy(merge_config.strict)
                   /\ Read(e, "ctxt.pull.state", "open")
                   /\ OnlyStatusesMissing(e)
                   /\ \A c \in Range(e.missing_conditions) :
                        StateRead(e, c) \in {"pending", "absent"})

\* C22 amended: cancel() waits exactly when strict is set, the pull request is
\* not closed, every missing condition is on a status and, of these statuses,
\* one is pending or none is reported.
C22_WaitsIffSomePending ==
  \A k \in DOMAIN merge_log :
    LET e == merge_log[k]
    IN (e.method = "cancel" /\ e.result.report # Raise)
         => /\ WaitsForCI(e)
                 <=> /\ truthy(merge_config.strict)
                     /\ Read(e, "ctxt.pull.state", "open")
                     /\ OnlyStatusesMissing(e)
                     /\ \/ \E c \in Range(e.missing_conditions) : StateRead(e, c) = "pending"
                        \/ \A c \in Range(e.missing_conditions) : StateRead(e, c) = "absent"
            /\ ~WaitsForCI(e) => e.result.report # get_wait_for_ci_report

\* C22 witness: with strict set, two statuses missing, one pending and one failed,
\* cancel() has returned the report that waits.
C22_Witness ==
  \E k \in DOMAIN merge_log :
    /\ merge_log[k].method = "cancel"
    /\ truthy(merge_config.strict)
    /\ merge_log[k].missing_conditions = <<"status-success=ci", "status-success=lint">>
    /\ StateRead(merge_log[k], "status-success=ci") = "pending"
    /\ StateRead(merge_log[k], "status-success=lint") = "failure"
    /\ WaitsForCI(merge_log[k])

\* ---- C23
\* C23: a call of cancel() that finds the pull request closed does not return the
\* report that waits for the statuses; a call of cancel() that returns another
\* report returns cancelled_check_report and, with strict = smart, has removed the
\* pull request from the queue.
C23_ClosedNeverWaits ==
  \A k \in DOMAIN merge_log :
    LET e == merge_log[k]
    IN e.method = "cancel"
         => /\ Read(e, "ctxt.pull.state", "closed") => e.result.report # get_wait_for_ci_report
            /\ e.result.report \notin {get_wait_for_ci_report, Raise}
                 => /\ e.result.report = cancelled_check_report
                    /\ merge_config.strict = "smart"
                         => /\ Did(e, "queue.remove_pull")
                            /\ ~e.result.queue
                            /\ ~queue

\* C23 witness: with strict = smart, a closed pull request that was in the queue
\* and whose only missing condition is on a status is cancelled and out of the
\* queue.
C23_Witness ==
  \E k \in DOMAIN merge_log :
    /\ merge_log[k].method = "cancel"
    /\ merge_config.strict = "smart"
    /\ merge_log[k].missing_conditions = <<"status-success=ci">>
    /\ Read(merge_log[k], "ctxt.pull.state", "closed")
    /\ merge_log[k].queue_before
    /\ merge_log[k].result.report = cancelled_check_report
    /\ ~queue

\* ---- C24
\* The call e of run() found that the pull request cannot be rebased, the method
\* configured being rebase.
CannotRebase(e) ==
  /\ e.method = "run"
  /\ merge_config.method = "rebase"
  /\ Read(e, "ctxt.pull.rebaseable", "False")

\* The merge requests the call e has sent have all the merge_method m, and there
\* is one.
SentOnly(e, m) ==
  /\ DidWith(e, "client.put", m)
  /\ \A i \in DOMAIN e.result.steps :
       e.result.steps[i].op = "client.put" => e.result.steps[i].arg = m

\* C24: a merge request is sent with the configured method, unless the method is
\* rebase and the pull request cannot be rebased: then it is sent with
\* rebase_fallback, and when rebase_fallback is none no merge request is sent and
\* the report is action_required.
C24_MethodResolution ==
  \A k \in DOMAIN merge_log :
    LET e == merge_log[k]
    IN e.method = "run"
         => /\ (Did(e, "client.put") /\ ~CannotRebase(e)) => SentOnly(e, merge_config.method)
            /\ Read(e, "ctxt.pull.rebaseable", "True") => SentOnly(e, "rebase")
            /\ (CannotRebase(e) /\ merge_config.rebase_fallback # None)
                 => SentOnly(e, merge_config.rebase_fallback)
            /\ (CannotRebase(e) /\ merge_config.rebase_fallback = None)
                 => /\ ~Did(e, "client.put")
                    /\ e.result.put = NoPut
                    /\ e.result.report[1] = "action_required"

\* C24 witness: the method is rebase, the pull request cannot be rebased, and the
\* merge request sent with the fallback squash is accepted.
C24_Witness ==
  \E k \in DOMAIN merge_log :
    /\ CannotRebase(merge_log[k])
    /\ merge_config.rebase_fallback = "squash"
    /\ SentOnly(merge_log[k], "squash")
    /\ merge_log[k].result.put.kind = "ok"

\* ---- C29
\* C29: with strict = smart, when run() returns the pending report "Base branch
\* will be updated soon", the pull request is in the queue, whether run() found it
\* behind its base branch or had its merge request refused with "Base branch was
\* modified".
C29_PendingMeansQueued ==
  \A k \in DOMAIN merge_log :
    LET e == merge_log[k]
    IN (e.method = "run" /\ merge_config.strict = "smart"
          /\ e.result.report = <<None, "Base branch will be updated soon", "">>)
         => /\ Did(e, "queue.add_pull")
            /\ e.result.queue
            /\ queue

\* ---- C25
\* The entries of a sequence of (rule, conditions) pairs, as rules.
RulesOf(entries) == [k \in DOMAIN entries |-> entries[k].rule]

\* The sequence sub lists some of the elements of the sequence seq, in the order
\* of seq (the elements of seq are all different).
RECURSIVE IsSubSeq(_, _)
IsSubSeq(sub, seq) ==
  IF sub = <<>> THEN TRUE
  ELSE IF seq = <<>> THEN FALSE
  ELSE IF Head(sub) = Head(seq) THEN IsSubSeq(Tail(sub), Tail(seq))
  ELSE IsSubSeq(sub, Tail(seq))

\* The condition c is on base, author or the number of files and does not hold on
\* the pull request matched.
FalseStructural(c) ==
  /\ c \in {"base=master", "author=mybot", "#files=2"}
  /\ CASE c = "base=master" -> matched.pull["base"] # {"master"}
       [] c = "author=mybot" -> matched.pull["author"] # {"mybot"}
       [] c = "#files=2" -> Cardinality(matched.pull["files"]) # 2

\* C25: a rule with a structural condition (on base, author, the number of files)
\* that does not hold is not in matching_rules; match.rules lists all the rules
\* loaded, in their order, and matching_rules lists the other rules, all of them,
\* in that order.
C25_StructuralExclusion ==
  matched.done
    => /\ matched.match.rules = pull_request_rules
       /\ IsSubSeq(RulesOf(matched.match.matching_rules), pull_request_rules)
       /\ \A i \in DOMAIN pull_request_rules :
            (\E k \in DOMAIN pull_request_rules[i].conditions :
               FalseStructural(pull_request_rules[i].conditions[k]))
              <=> pull_request_rules[i] \notin Range(RulesOf(matched.match.matching_rules))

\* C25 witness: of three rules the second has a structural condition that does not
\* hold, and matching_rules lists the first and the third.
C25_Witness ==
  /\ matched.done
  /\ Len(pull_request_rules) = 3
  /\ \E k \in DOMAIN pull_request_rules[2].conditions :
       FalseStructural(pull_request_rules[2].conditions[k])
  /\ RulesOf(matched.match.matching_rules) = << pull_request_rules[1], pull_request_rules[3] >>

\* ---- C26
\* The condition c is on a label, a status or the approvals and does not hold on
\* the pull request matched.
FalseDynamic(c) ==
  /\ c \in {"label=fast-track", "status-success=ci", "#approved-reviews-by>=1", "#approved-reviews-by>=2"}
  /\ CASE c = "label=fast-track" -> "fast-track" \notin matched.pull["label"]
       [] c = "status-success=ci" -> "ci" \notin matched.pull["status-success"]
       [] c = "#approved-reviews-by>=1" -> matched.pull["approved-reviews-by"] = {}
       [] c = "#approved-reviews-by>=2" -> Cardinality(matched.pull["approved-reviews-by"]) < 2

\* C26: the missing_conditions of a rule of matching_rules are the dynamic
\* conditions of the rule that do not hold on the pull request, in the order the
\* rule declares them; there is none exactly when all the conditions of the rule
\* hold.
C26_MissingConditions ==
  matched.done
    => \A k \in DOMAIN matched.match.matching_rules :
         LET e == matched.match.matching_rules[k]
         IN /\ e.missing_conditions = SelectSeq(e.rule.conditions, FalseDynamic)
            /\ e.missing_conditions = <<>>
                 <=> \A c \in Range(e.rule.conditions) : ~FalseDynamic(c) /\ ~FalseStructural(c)

\* C26 witness: a rule declares a label, the base, a status and an approval; the
\* label and the status are missing, and they are its missing_conditions, the
\* label first.
C26_Witness ==
  /\ matched.done
  /\ \E k \in DOMAIN matched.match.matching_rules :
       /\ matched.match.matching_rules[k].rule.conditions
            = <<"label=fast-track", "base=master", "status-success=ci", "#approved-reviews-by>=1">>
       /\ matched.match.matching_rules[k].missing_conditions
            = <<"label=fast-track", "status-success=ci">>

\* ---- C27
\* The rules of the file that have the name of the i-th.
SameName(i) == { j \in DOMAIN rule_file : rule_file[j].name = rule_file[i].name }

\* C27: once the file is loaded, a rule whose name is given to several rules is
\* named "<name> #k", the k-th of them in the file having the number k, a rule
\* whose name is given to no other keeps it, and no two rules loaded have the
\* same name.
C27_DistinctNames ==
  pull_request_rules # <<>>
    => /\ Len(pull_request_rules) = Len(rule_file)
       /\ \A i \in DOMAIN rule_file :
            IF Cardinality(SameName(i)) > 1
              THEN pull_request_rules[i].name
                     = rule_file[i].name \o " #" \o <<"1", "2", "3", "4">>[Cardinality({ j \in SameName(i) : j <= i })]
              ELSE pull_request_rules[i].name = rule_file[i].name
       /\ \A i, j \in DOMAIN pull_request_rules :
            i # j => pull_request_rules[i].name # pull_request_rules[j].name

\* ---- C28
\* Task a has published its Summary and task b, which read the same previous
\* Summary and the same match, is about to publish its own over it.
WroteThenWrites(a, b) ==
  /\ a # b
  /\ pc[a] = "idle"
  /\ summary_posted[a] = "posted"
  /\ pc[b] = "post"
  /\ summary_changed(seen[b].summary, match[b], conclusions[b])

\* The Summary left when b writes last, and the one left when a writes last.
SummaryIfLast(b) == new_summary(match[b], conclusions[b])

\* The ConclusionSet of one more pass over the unchanged snapshot, for an event
\* that is not a refresh, from the Summary given, the methods it calls getting the
\* answers given.
NextPass(b, summary_check, answers) ==
  run_actions(PairsOf(rules, match[b]),
              << [event_type |-> "pull_request", action |-> "synchronize"] >>,
              load_conclusions(summary_check),
              checks, comments, answers, 1, {})

\* What the Summary given stores for the pair p.
Stored(summary_check, p) ==
  previous_conclusion(load_conclusions(summary_check), p.rule, p.action, comments, checks)

\* C28 (as stated): after two concurrent passes that read the same Summary, one
\* more pass over the unchanged snapshot, without refresh, computes the same
\* ConclusionSet whichever of the two Summaries was written last.
C28_SameConclusionsWhoeverWroteLast ==
  \A a, b \in Tasks :
    WroteThenWrites(a, b)
      => \A answers \in Answers(PairsOf(rules, match[b])) :
           NextPass(b, summary, answers) = NextPass(b, SummaryIfLast(b), answers)

\* The pairs for which the two Summaries lead the next pass to the same decision:
\* the action always runs, or they store the same conclusion, or neither stores
\* a conclusion expected of the method selected.
SameDecision(b, p) ==
  \/ always_run(p.action)
  \/ Stored(summary, p) = Stored(SummaryIfLast(b), p)
  \/ /\ Stored(summary, p) \notin Range(expected_conclusions(p.missing_conditions))
     /\ Stored(SummaryIfLast(b), p) \notin Range(expected_conclusions(p.missing_conditions))

\* C28 (amended): after two concurrent passes that read the same Summary, one
\* more pass over the unchanged snapshot, without refresh, computes the same
\* conclusion for a check whichever of the two Summaries was written last when
\* the action always runs, or the two Summaries store the same conclusion for
\* the check, or neither stores a conclusion expected of the method selected;
\* a conclusion expected of the method selected that the Summary written last
\* stores for a check of an action that does not always run is the conclusion of
\* the pass for that check.
C28_ConvergesUnlessCarriedForward ==
  \A a, b \in Tasks :
    WroteThenWrites(a, b)
      => \A answers \in Answers(PairsOf(rules, match[b])) :
           \A k \in DOMAIN PairsOf(rules, match[b]) :
             LET p == PairsOf(rules, match[b])[k]
                 n == check_name(p.rule, p.action)
                 expected == Range(expected_conclusions(p.missing_conditions))
             IN /\ SameDecision(b, p)
                     => NextPass(b, summary, answers)[n] = NextPass(b, SummaryIfLast(b), answers)[n]
                /\ \A s \in {summary, SummaryIfLast(b)} :
                     (~always_run(p.action) /\ Stored(s, p) \in expected)
                       => NextPass(b, s, answers)[n] = Stored(s, p)

\* Two concurrent passes left different conclusions for a check that the next
\* pass carries forward, and the same for another that it computes again.
C28_Witness ==
  \E a, b \in Tasks :
    /\ WroteThenWrites(a, b)
    /\ \E k \in DOMAIN PairsOf(rules, match[b]) :
         LET p == PairsOf(rules, match[b])[k]
         IN /\ ~SameDecision(b, p)
            /\ Stored(summary, p) \in Range(expected_conclusions(p.missing_conditions))
    /\ \E k \in DOMAIN PairsOf(rules, match[b]) :
         LET p == PairsOf(rules, match[b])[k]
         IN /\ SameDecision(b, p)
            /\ Stored(summary, p) # Stored(SummaryIfLast(b), p)

\* ---- C30
\* C30: an only_once action of a rule is recorded as a success with the report
\* "Another <action> action already ran" only if run() of the action was called
\* for another rule earlier in the pass.
C30_AnotherRanOnlyAfterRun ==
  \A t \in Tasks : \A k \in Iterations(t) :
    log[t][k].report = <<"success", "Another action already ran", "">>
      => \E j \in Iterations(t) :
           /\ j < k
           /\ log[t][j].action = log[t][k].action
           /\ log[t][j].rule # log[t][k].rule
           /\ InvokedRun(t, j)

\* ---- C31
\* C31: with strict = False, no call of run() updates the branch of the pull
\* request with its base branch or puts the pull request in the queue, whatever
\* the answer to its merge request.
C31_NotStrictNeverSyncs ==
  \A k \in DOMAIN merge_log :
    LET e == merge_log[k]
    IN (e.method = "run" /\ ~truthy(merge_config.strict))
         => /\ ~Did(e, "update_pull_base_branch")
            /\ ~Did(e, "queue.add_pull")
            /\ e.result.queue = e.queue_before

\* ---- C32
\* C32: a check for which the Summary read by a pass stores the conclusion null
\* (pending) is not skipped as already in its expected state: need_to_be_run is
\* true for it whatever the method and the sources, and its method is called
\* unless the action is only_once and was taken by an earlier rule of the pass.
C32_PendingIsRunAgain ==
  \A t \in Tasks : \A k \in Iterations(t) :
    (/\ HasMarker(seen[t].summary)
     /\ \E e \in Range(seen[t].summary.last.payload) :
          e[1] = log[t][k].check_name /\ e[2] = "null")
      => /\ log[t][k].previous_conclusion = None
         /\ log[t][k].need_to_be_run
         /\ log[t][k].message # "ignored, already in expected state"
         /\ (Invoked(t, k) \/ log[t][k].done_by_another_action)
         /\ Invoked(t, k) => log[t][k].calls[1].method = log[t][k].method_name

\* C32 witness: without any refresh, a pass has called run() again for a merge
\* whose stored conclusion was pending, and it is pending again.
C32_Witness ==
  \E t \in Tasks : \E k \in Iterations(t) :
    /\ HasMarker(seen[t].summary)
    /\ \E e \in Range(seen[t].summary.last.payload) :
         e[1] = log[t][k].check_name /\ e[2] = "null"
    /\ ~HasRefresh(t)
    /\ InvokedRun(t, k)
    /\ log[t][k].action = "merge"
    /\ log[t][k].conclusion = None

\* ---- C33
\* C33: the keys of the conclusions a pass returns are exactly the check names
\* "Rule: <rule> (<action>)" of the actions of the rules of its matching_rules:
\* a name the previous conclusions hold for a rule that is ignored now is not
\* kept, and no action of a matching rule is missing.
C33_KeysAreMatchingPairs ==
  \A t \in Tasks :
    Returned(t)
      => DOMAIN conclusions[t]
           = UNION { { <<match[t][k].rule, rules[match[t][k].rule][j]>> :
                         j \in DOMAIN rules[match[t][k].rule] } : k \in DOMAIN match[t] }

\* C33 witness: a pass has returned a conclusion for the action of the rule that
\* matches, and none for the rule it read a conclusion of and ignores now.
C33_Witness ==
  \E t \in Tasks :
    /\ Returned(t)
    /\ Cardinality(DOMAIN conclusions[t]) = 1
    /\ Len(match[t]) = 1
    /\ \E n \in DOMAIN previous_conclusions[t].map :
         /\ n \notin DOMAIN conclusions[t]
         /\ \A k \in DOMAIN match[t] : match[t][k].rule # n[1]

\* ---- C34
\* C34: while every pass under way for the pull request has no forced refresh
\* among its sources and finds the rule fully matched, the comment of a rule with
\* a comment action has been posted at most once, two passes that read the
\* Summary before either wrote it included.
C34_CommentPostedOnce ==
  \A i \in DOMAIN rules :
    (/\ "comment" \in Range(rules[i])
     /\ \A t \in Tasks :
          /\ pc[t] \in {"run", "post"}
          /\ ~HasForcedRefresh(t)
          /\ \E k \in DOMAIN match[t] :
               match[t][k].rule = i /\ match[t][k].missing_conditions = <<>>)
      => comments[i] <= 1

====
